---------------------------- MODULE Spec2Model ----------------------------
(***************************************************************************)
(* Model of run_py/make.py: Step (change detection), Recipe.set_target     *)
(* (pruning) and Recipe.execute / Recipe.interrupt (the scheduler).        *)
(*                                                                         *)
(* A path is a string; the file system maps every path the recipe names to *)
(* its existence, mtime and bytes.  Contents are opaque small numbers: the *)
(* code only ever compares digests for equality.  A child process is named *)
(* by the id of the step that launched it (its pid).                       *)
(***************************************************************************)
EXTENDS Integers, Sequences, FiniteSets, TLC

\* ------------------------------------------------------------- bounds

\* Number of distinct file contents an edit or a rebuild can produce.
MaxBytes == 2
\* Largest logical core count drawn for multiprocessing.cpu_count().
MaxCores == 2
\* Number of times execute is called on the recipe.
MaxRuns == 2
\* Number of file changes made around one call of execute: before it
\* (since the previous call) and after it.
MaxEdits == 1
\* Number of steps add_step puts into a recipe under construction.
MaxSteps == 2
\* Depth of nested load_extension calls at which Python raises
\* RecursionError (sys.getrecursionlimit(), scaled down).
MaxDepth == 3
\* Number of planning passes (calls of build.recipe()) of one process.
MaxPasses == 2
\* Number of lines of a scanned source file.
MaxLines == 5

\* The grace period of interrupt (3 seconds in make.py line 379), in ticks.
Grace == 2

\* How many steps hold a builder when interrupt is called.
MaxTasks == 3

\* The child processes besides the watcher that no step returned.
MaxStrays == 1

\* ----------------------------------------------- paths and the recipes

\* Directories of the path universe (checkout directories of extensions).
DirPaths == {"/r/third"}

\* Source files: no step produces them.
SourcePaths == {"/r/a.c", "/r/b.c", "/r/lib.h"}

\* fs_utils.project_root is "/r"; every path of the universe lies under it.
RelativeTo(p) ==
    CASE p = "/r/a.c" -> "a.c"
      [] p = "/r/b.c" -> "b.c"
      [] p = "/r/lib.h" -> "lib.h"
      [] p = "/r/a.o" -> "a.o"
      [] p = "/r/b.o" -> "b.o"
      [] p = "/r/app" -> "app"
      [] p = "/r/gen.h" -> "gen.h"
      [] p = "/r/x" -> "x"
      [] p = "/r/y" -> "y"
      [] p = "/r/w" -> "w"
      [] p = "/r/third" -> "third"
      [] p = "/r/third/Makefile" -> "third/Makefile"
      [] p = "/r/lib.a" -> "lib.a"

\* Path(out).is_relative_to(p): p is out or an ancestor of out.
IsRelativeTo(out, p) ==
    \/ out = p
    \/ p = "/r/third" /\ out = "/r/third/Makefile"

\* The parent directory of a path, when the universe holds it.
ParentDir(p) == IF p = "/r/third/Makefile" THEN {"/r/third"} ELSE {}

\* Step.__init__: the fields of a step; id is assigned by add_step.
\* sync tells whether the action completes in process (returns None) or
\* returns the handle of a child process.
Step(shortcut, outputs, inputs, sync) ==
    [shortcut |-> shortcut, outputs |-> outputs, inputs |-> inputs, sync |-> sync]

\* The recipes the planner hands over (the order is the order of add_step).
\* 1: the compile/compile/link scenario.
\* 2: the shape build.py produces: a generated file written in process,
\*    a compile and a link step, and the phony step that runs the binary.
\* 3: independent branches, one of them built in process, and an
\*    aggregating phony step.
\* 4: the shape extension_helper.py produces: a checkout directory that
\*    is an output of one step and an input of the next one, and a step
\*    with an input that nobody produces.
\* 5: a recipe add_step accepts although two of its steps wait for each
\*    other's output, with a step that has nothing to do with them and a
\*    phony step that waits for all.
Plan(r) ==
    CASE r = 1 -> << Step("a.o", {"/r/a.o"}, {"/r/a.c"}, FALSE),
                     Step("b.o", {"/r/b.o"}, {"/r/b.c"}, FALSE),
                     Step("link app", {"/r/app"}, {"/r/a.o", "/r/b.o"}, FALSE) >>
      [] r = 2 -> << Step("gen", {"/r/gen.h"}, {}, TRUE),
                     Step("a.o", {"/r/a.o"}, {"/r/a.c", "/r/gen.h"}, FALSE),
                     Step("link app", {"/r/app"}, {"/r/a.o"}, FALSE),
                     Step("app", {}, {"/r/app"}, FALSE) >>
      [] r = 3 -> << Step("w", {"/r/w"}, {"/r/b.c"}, TRUE),
                     Step("x", {"/r/x"}, {"/r/a.c"}, FALSE),
                     Step("y", {"/r/y"}, {"/r/b.c"}, FALSE),
                     Step("all", {}, {"/r/x", "/r/y", "/r/w"}, TRUE) >>
      [] r = 4 -> << Step("get third", {"/r/third"}, {}, TRUE),
                     Step("configure third", {"/r/third/Makefile"},
                          {"/r/third", "/r/a.c"}, FALSE),
                     Step("lib", {"/r/lib.a"}, {"/r/third/Makefile", "/r/lib.h"}, FALSE) >>
      [] r = 5 -> << Step("x", {"/r/x"}, {"/r/a.c"}, FALSE),
                     Step("y", {"/r/y"}, {"/r/w"}, FALSE),
                     Step("w", {"/r/w"}, {"/r/y"}, TRUE),
                     Step("all", {}, {"/r/x", "/r/y"}, TRUE) >>
      \* y rewrites a file it reads; w reads nothing but its own output
      [] r = 6 -> << Step("x", {"/r/x"}, {"/r/a.c"}, FALSE),
                     Step("y", {"/r/y"}, {"/r/x", "/r/y"}, FALSE),
                     Step("w", {"/r/w"}, {"/r/w"}, TRUE),
                     Step("all", {}, {"/r/y", "/r/w"}, TRUE) >>
      \* two steps produce /r/x
      [] r = 7 -> << Step("x", {"/r/x"}, {"/r/a.c"}, FALSE),
                     Step("x again", {"/r/x"}, {"/r/b.c"}, TRUE),
                     Step("all", {}, {"/r/x"}, TRUE) >>

PlanIds == {1, 2, 3, 4, 5}

\* The recipes add_step accepts although no planner of the repository
\* produces them: a step that reads what it writes, two producers of a path.
OddPlanIds == {6, 7}

\* The recipes, by number.
Plans == [r \in PlanIds \cup OddPlanIds |-> Plan(r)]

\* ------------------------------------------- extensions and their hooks

\* The stems of the *.py files of the extension directory.
Ext == {"A", "B", "C"}

\* The hooks build.recipe() looks for with hasattr, in the order of its loops.
AllHooks == {"hook_recipe", "hook_srcs", "hook_plan", "hook_final"}

\* The load_extension calls in the code of each file, in order.
\* 1: none.  2: A builds upon B.  3: A and B request each other.
\* 4: A and C build upon the same base B.
RequestGraph(g) ==
    CASE g = 1 -> [e \in Ext |-> << >>]
      [] g = 2 -> [e \in Ext |-> IF e = "A" THEN << "B" >> ELSE << >>]
      [] g = 3 -> [e \in Ext |-> IF e = "A" THEN << "B" >>
                                 ELSE IF e = "B" THEN << "A" >> ELSE << >>]
      [] g = 4 -> [e \in Ext |-> IF e \in {"A", "C"} THEN << "B" >> ELSE << >>]

RequestGraphs == {1, 2, 3, 4}

\* The stages of build.recipe(), in the order of its statements.
Phases ==
    << "hook_recipe", "scan", "hook_srcs", "plan", "hook_plan", "add_steps",
       "hook_final", "done" >>

\* The position of a stage in build.recipe().
Rank(phase) == CHOOSE i \in DOMAIN Phases : Phases[i] = phase

\* Mutant: the sources are scanned after the hook_srcs loop.
PhaseAfterScanLate(phase) ==
    CASE phase = "hook_recipe" -> "hook_srcs"
      [] phase = "hook_srcs" -> "scan"
      [] phase = "scan" -> "plan"
      [] OTHER -> Phases[Rank(phase) + 1]

\* The stage that follows a stage.
PhaseAfter(phase) == Phases[Rank(phase) + 1]

NoHook == << "none", "" >>

\* -------------------------------------------------- the scanned sources

\* The keys of srcs: the files src.scan() found.
Files == {"a.cc", "b.hh", "c.hh"}

\* A path that is in a direct_includes list and not a key of srcs.
DanglingPath == "gone.hh"

\* What a local include line can name.
IncludePaths == Files \cup {DanglingPath}

\* The direct_includes lists a File can have after scan_contents.
IncludeLists ==
    {<< >>} \cup {<< p >> : p \in IncludePaths}
            \cup {<< "b.hh", "c.hh" >>, << "c.hh", "gone.hh" >>}

\* ------------------------------------------------ the text of a source

\* clang.default_defines: D is defined, U is not.
CurrentDefines == {"D"}

\* A line scan_contents records when it does not skip it: a local
\* include, a '#pragma maf' line, a system include.
IncludeLine == "#include \"x.hh\""

\* The lines of a source text.
LineKinds ==
    { "#ifdef D", "#ifdef U", "#ifndef D", "#else", "#elif defined(D)",
      "#elif defined(U)", "#endif", IncludeLine }

\* What the regular expression of scan_contents, lines 68-69, gives for a
\* line: '#else' has no 'if' and is not matched.
Match(line) ==
    CASE line = "#ifdef D" ->
           [matched |-> TRUE, el |-> FALSE, else_ |-> FALSE, end |-> FALSE, neg |-> FALSE, id |-> "D"]
      [] line = "#ifdef U" ->
           [matched |-> TRUE, el |-> FALSE, else_ |-> FALSE, end |-> FALSE, neg |-> FALSE, id |-> "U"]
      [] line = "#ifndef D" ->
           [matched |-> TRUE, el |-> FALSE, else_ |-> FALSE, end |-> FALSE, neg |-> TRUE, id |-> "D"]
      [] line = "#elif defined(D)" ->
           [matched |-> TRUE, el |-> TRUE, else_ |-> FALSE, end |-> FALSE, neg |-> FALSE, id |-> "D"]
      [] line = "#elif defined(U)" ->
           [matched |-> TRUE, el |-> TRUE, else_ |-> FALSE, end |-> FALSE, neg |-> FALSE, id |-> "U"]
      [] line = "#endif" ->
           [matched |-> TRUE, el |-> FALSE, else_ |-> FALSE, end |-> TRUE, neg |-> FALSE, id |-> ""]
      [] OTHER ->
           [matched |-> FALSE, el |-> FALSE, else_ |-> FALSE, end |-> FALSE, neg |-> FALSE, id |-> ""]

RECURSIVE Nesting(_, _)
\* The open conditional sections after the first k lines of a text, each
\* as TRUE when its #else has been seen; bad for a text in which an
\* #else, #elif or #endif has no #if or follows the #else of its #if.
Nesting(text, k) ==
    IF k = 0 THEN [bad |-> FALSE, open |-> << >>]
    ELSE LET prior == Nesting(text, k - 1)
             line == text[k]
             open == prior.open
             Bad == [bad |-> TRUE, open |-> << >>]
         IN IF prior.bad THEN prior
            ELSE IF line \in {"#ifdef D", "#ifdef U", "#ifndef D"}
            THEN [prior EXCEPT !.open = Append(open, FALSE)]
            ELSE IF line = IncludeLine THEN prior
            ELSE IF open = << >> THEN Bad
            ELSE IF line = "#endif"
            THEN [prior EXCEPT !.open = SubSeq(open, 1, Len(open) - 1)]
            ELSE IF open[Len(open)] THEN Bad
            ELSE IF line = "#else"
            THEN [prior EXCEPT !.open = [open EXCEPT ![Len(open)] = TRUE]]
            ELSE prior

\* A text whose conditional sections are properly nested and closed.
WellFormed(text) ==
    LET all == Nesting(text, Len(text))
    IN ~all.bad /\ all.open = << >>

\* ------------------------------------------------------------ the state

VARIABLES
    plan,          \* which recipe the planner produced (fixed after Init)
    steps,         \* Recipe.steps: the step ids, in order
    files,         \* the file system: path of the recipe -> [exists, mtime, bytes]
    hashes,        \* HASH_DIR: shortcut -> [exists, rec]; rec = {<<input, digest>>}
    now,           \* the clock when the build began; a change by hand advances it
    pc,            \* where the program is
    target,        \* the arguments of the last set_target call
    extra_targets,
    error,         \* the exception set_target raised, or NoError
    cores,         \* multiprocessing.cpu_count()
    blocker_count, \* Step.blocker_count, by step id
    ready_steps,   \* execute's ready_steps list
    pid_to_step,   \* Recipe.pid_to_step: the ids of the registered processes
    builder,       \* Step.builder: the state of the step's process handle
    result,        \* what execute returned
    runs,          \* how many times execute has been called
    watcher,       \* the directory watcher's process handle
    edits,         \* the file changes made since execute last returned
    changed,       \* the file changes that preceded the run in progress
    prev_ok,       \* the previous call of execute returned True
    before,        \* history: the file system when this run of execute began
    started,       \* history: the steps dequeued in this run
    finished,      \* history: the steps on_step_finished was called for
    invoked,       \* history: the steps whose action was invoked, in order
    failed,        \* history: the steps that failed in this run
    sigint,        \* history: the processes sent the termination request
    at_failure,    \* history: the processes running when the failure was handled
    status,        \* the exit status of the program, once it has exited
    restarted,     \* history: the watcher cancelled the build before this plan,
                   \* until execute begins on it
    added,         \* Recipe.steps of a recipe under construction: Step records
    add_raised,    \* the exception the last add_step call raised, or "none"
    add_args,      \* history: the arguments of the last add_step call
    ext_requests,  \* per extension file: the load_extension calls of its code
    ext_hooks,     \* per extension file: the hooks its module defines
    ext_raises,    \* the extension files whose code raises when executed
    extensions_list,   \* src.extensions_list: [is_none, list]
    loaded_extensions, \* src.loaded_extensions: the names that are keys
    glob_left,     \* load_extensions: the paths the for loop has not visited
    call_stack,    \* the load_extension calls in progress: [name, next]
    failed_to_load,    \* the names printed as 'Failed to load extension'
    exec_count,    \* history: how often exec_module ran the file of a name
    ppc,           \* where the planning pass is
    hook_idx,      \* the position of the hook loop in extensions
    log,           \* history: the hooks and core stages that have run
    hook_raised,   \* history: the hook call that raised, or NoHook
    passes,        \* how many times build.recipe() has been called
    direct_includes,     \* per File: the paths of its local includes, in order
    marker,        \* the Files whose text has the main marker
    main,          \* per File: File.main
    transitive_includes, \* per File: File.transitive_includes
    self_file,     \* the File update_transitive_includes runs for, or ""
    include_queue, \* update_transitive_includes: the worklist
    updated,       \* the Files update_transitive_includes has returned for
    warnings,      \* history: the printed warnings, as << file, path >>
    pops,          \* history: iterations of the loop for self_file
    lines,         \* scan_contents: the lines of the file
    lineno,        \* scan_contents: the index of the next line
    if_stack,      \* scan_contents: if_stack
    recorded,      \* history: the lines scan_contents did not skip
    exit_at,       \* interrupt: per active task, when it exits once signalled
    ipc,           \* interrupt: where the call is
    task_idx,      \* interrupt: the index of the running loop in active
    signalled,     \* history: the tasks that were sent SIGINT while running
    killed,        \* history: the tasks that were running when kill() hit them
    clock,         \* time.time() - start_time
    psrcs,         \* planning: the paths src.scan() found
    pincludes,     \* planning: per path, File.transitive_includes
    pmain,         \* planning: the paths whose File.main is set
    helper,        \* planning: how the ExtensionHelper was configured
    beam,          \* ExtensionHelper.beam, kept between the passes
    objs,          \* plan: the dict objs, path -> ObjectFile
    bins,          \* plan: the Binaries
    cur_steps,     \* recipe: the steps added in this pass
    pass_steps,    \* history: the steps of every finished pass
    plan_pc,       \* where the planning pass is
    cleaned,       \* history: the steps whose cleanup callback was called
    strays,        \* the child processes that no step returned the handle of
    warned         \* history: the 'unregistered child process' warnings

\* The state of the main loop, outside set_target and execute.
main_vars == << status, restarted >>

\* A recipe under construction.
recipe_vars == << added, add_raised, add_args >>

\* The extension registry and the planning pass.
planning_vars ==
    << ext_requests, ext_hooks, ext_raises, extensions_list, loaded_extensions,
       glob_left, call_stack, failed_to_load, exec_count, ppc, hook_idx, log,
       hook_raised, passes >>

\* The scanned sources and the closure pass over them.
closure_vars ==
    << direct_includes, marker, main, transitive_includes, self_file,
       include_queue, updated, warnings, pops >>

\* The scan of the text of one file.
scan_vars == << lines, lineno, if_stack, recorded >>

\* Recipe.interrupt.
interrupt_vars == << exit_at, ipc, task_idx, signalled, killed, clock >>

\* build.plan and build.recipe over the scanned sources.
plan_vars ==
    << psrcs, pincludes, pmain, helper, beam, objs, bins, cur_steps, pass_steps,
       plan_pc >>

\* The children of the program that execute may reap, and what it did
\* about them.
child_vars == << cleaned, strays, warned >>

\* What the wait branch of execute leaves alone.
other_vars ==
    << main_vars, recipe_vars, planning_vars, closure_vars, scan_vars,
       interrupt_vars, plan_vars >>

\* What set_target, execute and the changes of the files leave alone.
rest_vars == << other_vars, child_vars >>

\* The state of set_target and execute.
run_vars ==
    << plan, steps, files, hashes, now, pc, target, extra_targets, error, cores,
       blocker_count, ready_steps, pid_to_step, builder, result, runs, watcher,
       edits, changed, prev_ok, before, started, finished, invoked, failed, sigint,
       at_failure >>

vars ==
    << plan, steps, files, hashes, now, pc, target, extra_targets, error, cores,
       blocker_count, ready_steps, pid_to_step, builder, result, runs, watcher,
       edits, changed, prev_ok, before, started, finished, invoked, failed, sigint,
       at_failure, rest_vars >>

\* The step with id s of the recipe (ids count from 1 here, from 0 in add_step).
StepOf(s) == Plans[plan][s]

AllIds == DOMAIN Plans[plan]

NoError == [kind |-> "none", target |-> "", hint |-> "none", names |-> {}]

\* The elements of a sequence.
Range(q) == { q[i] : i \in DOMAIN q }

\* ------------------------------------------------ Step.__init__, add_step

\* The actions passed to add_step: "" is a functools.partial, which has
\* no __name__; "f" and "g" are functions of that name.
BuildFuncs == {"", "f", "g"}

\* The desc arguments: "" is None (or an empty string), which is falsy.
Descs == {"", "D"}

\* The shortcut arguments: "" is None (or an empty string).
ShortcutArgs == {"", "a", "a/b"}

\* The output lists passed to add_step.
OutputArgs == {{}, {"/r/a.o"}, {"/r/b.o"}}

\* '/' in shortcut
HasSlash(shortcut) == shortcut = "a/b"

\* f'Running {build_func.__name__}'
RunningDesc(build_func) ==
    CASE build_func = "f" -> "Running f"
      [] build_func = "g" -> "Running g"

NoArgs == [build_func |-> "", desc |-> "", shortcut |-> "", outputs |-> {}]

\* Mutant: the test for a slash in the shortcut is missing.
StepInitNoSlashTest(build_func, outputs, inputs, id, desc, shortcut) ==
    IF desc = "" /\ build_func = ""
    THEN [raised |-> "ValueError desc"]
    ELSE IF shortcut = "" /\ build_func = ""
    THEN [raised |-> "ValueError shortcut"]
    ELSE [raised |-> "none",
          step |-> [id |-> id,
                    desc |-> IF desc = "" THEN RunningDesc(build_func) ELSE desc,
                    shortcut |-> IF shortcut = "" THEN build_func ELSE shortcut,
                    outputs |-> outputs, inputs |-> inputs]]

\* Step.__init__: the exception raised, or the fields of the new Step.
StepInit(build_func, outputs, inputs, id, desc, shortcut) ==
    IF desc = "" /\ build_func = ""
    THEN [raised |-> "ValueError desc"]
    ELSE IF shortcut = "" /\ build_func = ""
    THEN [raised |-> "ValueError shortcut"]
    ELSE IF HasSlash(IF shortcut = "" THEN build_func ELSE shortcut)
    THEN [raised |-> "ValueError slash"]
    ELSE [raised |-> "none",
          step |-> [id |-> id,
                    desc |-> IF desc = "" THEN RunningDesc(build_func) ELSE desc,
                    shortcut |-> IF shortcut = "" THEN build_func ELSE shortcut,
                    outputs |-> outputs, inputs |-> inputs]]

\* The ids of a set as a sequence in increasing order.
RECURSIVE Ascending(_)
Ascending(S) ==
    IF S = {} THEN << >>
    ELSE LET m == CHOOSE x \in S : \A y \in S : x <= y
         IN << m >> \o Ascending(S \ {m})

\* ------------------------------------------------------ Recipe.set_target

\* difflib's ratio of the two strings is at least the default cutoff 0.6.
IsCloseMatch(word, shortcut) ==
    \/ word = "c.o" /\ shortcut \in {"a.o", "b.o"}
    \/ word = "ap" /\ shortcut = "app"

\* get_close_matches(target, [s.shortcut for s in self.steps]); at most
\* three names come back, and the recipes here never have more close ones.
GetCloseMatches(word, stepSeq) ==
    { StepOf(stepSeq[i]).shortcut : i \in { j \in DOMAIN stepSeq :
        IsCloseMatch(word, StepOf(stepSeq[j]).shortcut) } }

\* out_index[output]: the steps that declare the output, in recipe order.
OutIndex(stepSeq, path) ==
    { s \in Range(stepSeq) : path \in StepOf(s).outputs }

\* First loop: q holds the steps whose shortcut is the target.
MatchedByShortcut(stepSeq, tgt) ==
    SelectSeq(stepSeq, LAMBDA s : StepOf(s).shortcut = tgt)

\* Second loop, taken when q is empty: the steps one of whose outputs,
\* relative to the project root, is the target.
MatchedByOutput(stepSeq, tgt) ==
    SelectSeq(stepSeq, LAMBDA s : \E o \in StepOf(s).outputs : RelativeTo(o) = tgt)

\* Mutant: the fallback to output paths is missing.
MatchedShortcutOnly(stepSeq, tgt) ==
    MatchedByShortcut(stepSeq, tgt)

\* q after both loops.
Matched(stepSeq, tgt) ==
    IF MatchedByShortcut(stepSeq, tgt) # << >>
    THEN MatchedByShortcut(stepSeq, tgt)
    ELSE MatchedByOutput(stepSeq, tgt)

\* The steps appended for extra_targets.
ExtraMatched(stepSeq, extras) ==
    SelectSeq(stepSeq, LAMBDA s : StepOf(s).shortcut \in extras)

\* Mutant: out_index, a defaultdict, was read with out_index[input] before
\* the membership test, so every input is found in it and nothing raises.
UnsatisfiableNever(stepSeq, fs, inp) ==
    FALSE

\* An input the walk raises on: no step declares it and it is not on disk.
Unsatisfiable(stepSeq, fs, inp) ==
    OutIndex(stepSeq, inp) = {} /\ ~fs[inp].exists

\* Mutant: the walk follows the inputs of the first step it pops only.
RECURSIVE WalkOneLevel(_, _, _, _)
WalkOneLevel(stepSeq, fs, q, new_steps) ==
    IF q = << >> THEN [raised |-> FALSE, steps |-> new_steps, at |-> 0]
    ELSE LET step == q[Len(q)]
             rest == SubSeq(q, 1, Len(q) - 1)
         IN IF \E inp \in StepOf(step).inputs : Unsatisfiable(stepSeq, fs, inp)
            THEN [raised |-> TRUE, steps |-> new_steps \cup {step}, at |-> step]
            ELSE IF new_steps = {}
            THEN WalkOneLevel(stepSeq, fs,
                      rest \o Ascending(UNION { OutIndex(stepSeq, inp) :
                                                inp \in StepOf(step).inputs }),
                      new_steps \cup {step})
            ELSE WalkOneLevel(stepSeq, fs, rest, new_steps \cup {step})

\* The while loop over q (a stack: pop takes the last element).  Returns
\* the collected set, or the step whose input raised.
RECURSIVE Walk(_, _, _, _)
Walk(stepSeq, fs, q, new_steps) ==
    IF q = << >> THEN [raised |-> FALSE, steps |-> new_steps, at |-> 0]
    ELSE LET step == q[Len(q)]
             rest == SubSeq(q, 1, Len(q) - 1)
         IN IF step \in new_steps THEN Walk(stepSeq, fs, rest, new_steps)
            ELSE IF \E inp \in StepOf(step).inputs : Unsatisfiable(stepSeq, fs, inp)
            THEN [raised |-> TRUE, steps |-> new_steps \cup {step}, at |-> step]
            ELSE Walk(stepSeq, fs,
                      rest \o Ascending(UNION { OutIndex(stepSeq, inp) :
                                                inp \in StepOf(step).inputs }),
                      new_steps \cup {step})

\* new_steps.sort(key=self.steps.index)
SortByIndex(stepSeq, new_steps) ==
    SelectSeq(stepSeq, LAMBDA s : s \in new_steps)

\* Mutant: self.steps is assigned as the walk goes, so that an exception
\* leaves the steps collected so far.
SetTargetOutcomeAssigningEarly(stepSeq, fs, tgt, extras) ==
    IF Matched(stepSeq, tgt) = << >>
    THEN [kind |-> "invalid", target |-> tgt, hint |-> "valid",
          names |-> { StepOf(s).shortcut : s \in Range(stepSeq) },
          steps |-> stepSeq]
    ELSE LET w == Walk(stepSeq, fs,
                       Matched(stepSeq, tgt) \o ExtraMatched(stepSeq, extras), {})
         IN [kind |-> IF w.raised THEN "unsatisfiable" ELSE "none",
             target |-> tgt, hint |-> "none",
             names |-> IF w.raised THEN {StepOf(w.at).shortcut} ELSE {},
             steps |-> SortByIndex(stepSeq, w.steps)]

\* What set_target does: the exception raised, or the pruned list.
SetTargetOutcome(stepSeq, fs, tgt, extras) ==
    IF Matched(stepSeq, tgt) = << >>
    THEN IF GetCloseMatches(tgt, stepSeq) # {}
         THEN [kind |-> "invalid", target |-> tgt, hint |-> "close",
               names |-> GetCloseMatches(tgt, stepSeq), steps |-> stepSeq]
         ELSE [kind |-> "invalid", target |-> tgt, hint |-> "valid",
               names |-> { StepOf(s).shortcut : s \in Range(stepSeq) },
               steps |-> stepSeq]
    ELSE LET w == Walk(stepSeq, fs,
                       Matched(stepSeq, tgt) \o ExtraMatched(stepSeq, extras), {})
         IN IF w.raised
            THEN [kind |-> "unsatisfiable", target |-> tgt, hint |-> "none",
                  names |-> {StepOf(w.at).shortcut}, steps |-> stepSeq]
            ELSE [kind |-> "none", target |-> tgt, hint |-> "none",
                  names |-> {}, steps |-> SortByIndex(stepSeq, w.steps)]

\* ------------------------------------------------- Step: change detection

\* The digest of the empty byte string: the contents read for a missing path.
EmptyBytes == 0

\* Mutant: every path is digested by its mtime.
hexdigestOfMtime(fs, path) ==
    IF fs[path].exists
    THEN << "mtime", fs[path].mtime >>
    ELSE << "bytes", EmptyBytes >>

\* hexdigest(path): a directory is digested by its mtime, a file by its
\* bytes, a missing path as the empty byte string.
hexdigest(fs, path) ==
    IF fs[path].exists
    THEN IF path \in DirPaths
         THEN << "mtime", fs[path].mtime >>
         ELSE << "bytes", fs[path].bytes >>
    ELSE << "bytes", EmptyBytes >>

\* The text record_input_hashes writes: one line per input.
InputHashes(fs, s) ==
    { << inp, hexdigest(fs, inp) >> : inp \in StepOf(s).inputs }

\* Mutant: the record is never written.
RecordNothing(hs, fs, s) == hs

\* record_input_hashes: HASH_DIR / shortcut is overwritten.
record_input_hashes(hs, fs, s) ==
    [hs EXCEPT ![StepOf(s).shortcut] = [exists |-> TRUE, rec |-> InputHashes(fs, s)]]

\* recorded_hashes[inp] of a defaultdict(str): the recorded digest, or the
\* empty string, which no digest equals.
RecordedHash(rec, inp) ==
    IF \E l \in rec : l[1] = inp
    THEN (CHOOSE l \in rec : l[1] = inp)[2]
    ELSE << "", 0 >>

\* Check 2: min of the outputs' mtimes (0 for a missing one, 0 without outputs).
BuildTime(fs, s) ==
    IF StepOf(s).outputs = {} THEN 0
    ELSE LET times == { IF fs[o].exists THEN fs[o].mtime ELSE 0 : o \in StepOf(s).outputs }
         IN CHOOSE t \in times : \A u \in times : t <= u

\* Mutant: an input as old as the oldest output counts as older.
UpdatedInputsNewerOnly(fs, s) ==
    { inp \in StepOf(s).inputs :
        /\ ~(inp \in DirPaths /\ fs[inp].exists
             /\ \E out \in StepOf(s).outputs : IsRelativeTo(out, inp) /\ fs[out].exists)
        /\ ~(fs[inp].exists /\ fs[inp].mtime <= BuildTime(fs, s))
        /\ fs[inp].exists }

\* Check 2: the inputs that are not older than the outputs.
UpdatedInputs(fs, s) ==
    { inp \in StepOf(s).inputs :
        /\ ~(inp \in DirPaths /\ fs[inp].exists
             /\ \E out \in StepOf(s).outputs : IsRelativeTo(out, inp) /\ fs[out].exists)
        /\ ~(fs[inp].exists /\ fs[inp].mtime < BuildTime(fs, s))
        /\ fs[inp].exists }

\* Mutant: the digests are not compared, every updated input is reported.
ChangedInputsAll(hs, fs, s) ==
    UpdatedInputs(fs, s)

\* Check 3: of the updated inputs, those whose digest is not the recorded one.
ChangedInputs(hs, fs, s) ==
    { inp \in UpdatedInputs(fs, s) :
        hexdigest(fs, inp) # RecordedHash(hs[StepOf(s).shortcut].rec, inp) }

\* Step.dirty_inputs
dirty_inputs(hs, fs, s) ==
    IF \E out \in StepOf(s).outputs : ~fs[out].exists
    THEN StepOf(s).inputs
    ELSE IF UpdatedInputs(fs, s) = {} THEN {}
    ELSE IF ~hs[StepOf(s).shortcut].exists THEN UpdatedInputs(fs, s)
    ELSE ChangedInputs(hs, fs, s)

\* Mutant: only the dirty inputs decide.
build_if_neededDirtyOnly(hs, fs, s) ==
    dirty_inputs(hs, fs, s) # {}

\* Step.build_if_needed: TRUE when build_and_log is called.
build_if_needed(hs, fs, s) ==
    \/ StepOf(s).inputs = {} /\ \E out \in StepOf(s).outputs : ~fs[out].exists
    \/ StepOf(s).outputs = {}
    \/ dirty_inputs(hs, fs, s) # {}

\* ------------------------------------------------------ the file system

\* A path that is not on disk.
Missing == [exists |-> FALSE, mtime |-> 0, bytes |-> EmptyBytes]

\* The paths the recipe's steps name.
PlanPaths == UNION { StepOf(s).outputs \cup StepOf(s).inputs : s \in AllIds }

\* The greatest element of a set of times.
SetMax(S) == CHOOSE x \in S : \A y \in S : y <= x

\* The time the outputs of step s are stamped with.  dirty_inputs compares
\* the mtime of an input only with the mtimes of the outputs of the same
\* step, so time is kept as a logical clock: a write is later than the
\* beginning of the build and later than the step's inputs that a step
\* produced; the writes of unrelated steps are not ordered.
WriteTimes(s) ==
    {1 + SetMax({now} \cup { files[i].mtime :
                   i \in { j \in StepOf(s).inputs :
                              files[j].exists /\ j \notin SourcePaths } })}

\* The time a change made by hand is stamped with: later than every write
\* of the builds before it.
TouchTimes == {now + 1}

\* A successful action writes its declared outputs at time t: a directory
\* is created, a file gets bytes b (a file written for the first time gets
\* the bytes named 1), and creating an entry stamps its parent directory.
WriteOutputs(fs, s, t, b) ==
    LET outs == StepOf(s).outputs
        created == { o \in outs : ~fs[o].exists }
        parents == UNION { ParentDir(o) : o \in created }
    IN [p \in DOMAIN fs |->
          IF p \in outs
          THEN IF p \in DirPaths
               THEN [exists |-> TRUE, mtime |-> t, bytes |-> EmptyBytes]
               ELSE [exists |-> TRUE, mtime |-> t,
                     bytes |-> IF fs[p].exists THEN b ELSE 1]
          ELSE IF p \in parents
          THEN [exists |-> TRUE, mtime |-> t, bytes |-> EmptyBytes]
          ELSE fs[p]]

\* --------------------------------------------------------- Recipe.execute

Intersects(A, B) == A \cap B # {}

\* Lines 266-271: the number of other steps whose outputs meet a's inputs.
InitialBlockers(stepSeq, a) ==
    Cardinality({ b \in Range(stepSeq) :
                    b # a /\ Intersects(StepOf(b).outputs, StepOf(a).inputs) })

\* Mutant: on_step_finished skips the finished step itself, as the
\* counting loop does.
DecrementedOthersOnly(stepSeq, bc, a) ==
    [b \in DOMAIN bc |->
        IF /\ b \in Range(stepSeq)
           /\ b # a
           /\ Intersects(StepOf(b).inputs, StepOf(a).outputs)
        THEN bc[b] - 1
        ELSE bc[b]]

\* on_step_finished(a): the counters after the loop over self.steps.
Decremented(stepSeq, bc, a) ==
    [b \in DOMAIN bc |->
        IF b \in Range(stepSeq) /\ Intersects(StepOf(b).inputs, StepOf(a).outputs)
        THEN bc[b] - 1
        ELSE bc[b]]

\* Mutant: the test of the counter against zero is missing.
NewlyReadyAny(stepSeq, bc, a) ==
    SelectSeq(stepSeq, LAMBDA b : Intersects(StepOf(b).inputs, StepOf(a).outputs))

\* Mutant: a step is appended whenever its counter is not positive.
NewlyReadyNotPositive(stepSeq, bc, a) ==
    SelectSeq(stepSeq, LAMBDA b :
        Intersects(StepOf(b).inputs, StepOf(a).outputs) /\ bc[b] - 1 <= 0)

\* on_step_finished(a): the steps appended to ready_steps, in recipe order.
NewlyReady(stepSeq, bc, a) ==
    SelectSeq(stepSeq, LAMBDA b :
        Intersects(StepOf(b).inputs, StepOf(a).outputs) /\ bc[b] - 1 = 0)

\* Line 304: the loop goes on.
LoopCondition == ready_steps # << >> \/ pid_to_step # {}

\* Mutant: the comparison with desired_parallelism is strict.
MustWaitLate ==
    Len(ready_steps) = 0 \/ Cardinality(pid_to_step) > cores

\* Lines 305-306: nothing to dispatch, or the budget is used up.
MustWait ==
    Len(ready_steps) = 0 \/ Cardinality(pid_to_step) >= cores

\* The child processes that have not exited.
Running == { s \in AllIds : builder[s] = "running" }

\* Recipe.interrupt: the handles of the recipe's steps that are set.
Active == { s \in Range(steps) : builder[s] # "none" }

\* Recipe.interrupt: send_signal reaches the processes still running.
Signalled == { s \in Active : builder[s] = "running" }

\* Recipe.interrupt: after the grace period every active process is killed.
Interrupted ==
    [s \in DOMAIN builder |->
        IF s \in Active /\ builder[s] = "running" THEN "killed" ELSE builder[s]]

\* ------------------------------------------------------------- Init

\* The shortcuts of the recipe: the names of the records in HASH_DIR.
Shortcuts == { StepOf(s).shortcut : s \in AllIds }

\* A fresh checkout: the sources are on disk, nothing is built, no hash
\* record is kept.  lib.h, which no step produces, may be missing.  a.c is
\* older than anything the build writes; b.c and lib.h were saved in the
\* tick of the clock in which the first build writes, so an output made
\* from them may carry the mtime of its input.
InitialFiles(libh) ==
    [p \in PlanPaths |->
        IF p = "/r/b.c" \/ (p = "/r/lib.h" /\ libh)
        THEN [exists |-> TRUE, mtime |-> 1, bytes |-> 1]
        ELSE IF p = "/r/a.c"
        THEN [exists |-> TRUE, mtime |-> 0, bytes |-> 1]
        ELSE Missing]

\* A recipe that has been planned, before set_target and execute.
InitExecute(ids, children) ==
    /\ plan \in ids
    /\ cleaned = {}
    /\ strays \in children
    /\ warned = 0
    /\ steps = Ascending(AllIds)
    /\ \E libh \in BOOLEAN :
         /\ (libh => "/r/lib.h" \in PlanPaths)
         /\ files = InitialFiles(libh)
    /\ hashes = [sc \in Shortcuts |-> [exists |-> FALSE, rec |-> {}]]
    /\ now = 0
    /\ pc = "planned"
    /\ target = ""
    /\ extra_targets = {}
    /\ error = NoError
    /\ cores \in 1..MaxCores
    /\ blocker_count = [s \in AllIds |-> 0]
    /\ ready_steps = << >>
    /\ pid_to_step = {}
    /\ builder = [s \in AllIds |-> "none"]
    /\ result = "none"
    /\ runs = 0
    /\ watcher = "none"
    /\ edits = {}
    /\ changed = {}
    /\ prev_ok = FALSE
    /\ before = files
    /\ started = {}
    /\ finished = {}
    /\ invoked = << >>
    /\ failed = {}
    /\ sigint = {}
    /\ at_failure = {}
    /\ status = "none"
    /\ restarted = FALSE
    /\ added = << >>
    /\ add_raised = "none"
    /\ add_args = NoArgs

\* A recipe of the planner, and no child besides the steps' processes and
\* the watcher.
InitBuild == InitExecute(PlanIds, {0})

\* The extension registry of a process that has not planned yet.
InitExtensions(requests, hooks, raises) ==
    /\ ext_requests = requests
    /\ ext_hooks = hooks
    /\ ext_raises = raises
    /\ extensions_list = [is_none |-> TRUE, list |-> << >>]
    /\ loaded_extensions = {}
    /\ glob_left = {}
    /\ call_stack = << >>
    /\ failed_to_load = {}
    /\ exec_count = [e \in Ext |-> 0]
    /\ ppc = "start"
    /\ hook_idx = 1
    /\ log = << >>
    /\ hook_raised = NoHook
    /\ passes = 0

\* The Files as src.scan() returns them: File.__init__ and scan_contents.
InitSrcs(includes, markers) ==
    /\ direct_includes = includes
    /\ marker = markers
    /\ main = [f \in Files |-> f \in markers]
    /\ transitive_includes = [f \in Files |-> {}]
    /\ self_file = ""
    /\ include_queue = << >>
    /\ updated = {}
    /\ warnings = {}
    /\ pops = 0

\* scan_contents before the first line of a file, lines 52-62.
InitScanContents(text) ==
    /\ lines = text
    /\ lineno = 1
    /\ if_stack = << TRUE >>
    /\ recorded = {}

\* interrupt at its first statement, make.py lines 378-380: active holds the
\* builders of the steps that have one.
InitInterrupt(active) ==
    /\ exit_at = active
    /\ ipc = "signal"
    /\ task_idx = 1
    /\ signalled = {}
    /\ killed = {}
    /\ clock = 0

\* An ExtensionHelper nobody configured.
NoHelper ==
    [fetch |-> "none", patch |-> FALSE, post_install |-> FALSE,
     skip_configure |-> FALSE]

\* The process before the first planning pass: srcs as src.scan() left them,
\* the helper as the extension module built it, beam as __init__ leaves it
\* (extension_helper.py line 95).
InitPlan(paths, includes, mains, h) ==
    /\ psrcs = paths
    /\ pincludes = includes
    /\ pmain = mains
    /\ helper = h
    /\ beam = {}
    /\ objs = << >>
    /\ bins = << >>
    /\ cur_steps = {}
    /\ pass_steps = << >>
    /\ plan_pc = "hook_recipe"

Init ==
    /\ InitBuild
    /\ InitExtensions(RequestGraph(1), [e \in Ext |-> AllHooks], {})
    /\ InitSrcs([f \in Files |-> << >>], {})
    /\ InitScanContents(<< >>)
    /\ InitInterrupt(<< >>)
    /\ InitPlan({}, [f \in {} |-> {}], {}, NoHelper)

\* ------------------------------------------------------------ actions

\* The target names a caller may pass: every shortcut and every output
\* path of the recipe, and three names that are neither.
Targets ==
    { StepOf(s).shortcut : s \in AllIds }
    \cup { RelativeTo(o) : o \in UNION { StepOf(s).outputs : s \in AllIds } }
    \cup {"c.o", "ap", "nope"}

\* extra_targets: none, or one name.
ExtraChoices == {{}} \cup { {StepOf(s).shortcut} : s \in AllIds } \cup {{"nope"}}

\* recipe.set_target(target, *extra_targets)
SetTarget(tgt, extras) ==
    /\ UNCHANGED rest_vars
    /\ pc = "planned"
    /\ LET out == SetTargetOutcome(steps, files, tgt, extras)
       IN /\ target' = tgt
          /\ extra_targets' = extras
          /\ error' = [kind |-> out.kind, target |-> out.target,
                       hint |-> out.hint, names |-> out.names]
          /\ steps' = out.steps
          /\ pc' = IF out.kind = "none" THEN "pruned" ELSE "config_error"
    /\ UNCHANGED << plan, files, hashes, now, cores, blocker_count, ready_steps,
                    pid_to_step, builder, result, runs, watcher, edits, changed,
                    prev_ok, before, started, finished, invoked, failed, sigint, at_failure >>

\* execute, lines 259-273: the counters and the initial ready list.  The
\* caller passes a watcher in live mode.
ExecuteStart(live) ==
    /\ UNCHANGED << status, recipe_vars, planning_vars, closure_vars, scan_vars,
                    interrupt_vars, plan_vars, strays, warned >>
    /\ cleaned' = {}
    /\ restarted' = FALSE
    /\ \/ pc = "pruned"
       \/ \* the program is run again after a build without a watcher
          pc = "returned" /\ result = "True" /\ watcher = "none"
    /\ runs < MaxRuns
    /\ pc' = "executing"
    /\ runs' = runs + 1
    /\ watcher' = IF live THEN "running" ELSE "none"
    /\ blocker_count' =
         [s \in DOMAIN blocker_count |->
            IF s \in Range(steps) THEN InitialBlockers(steps, s) ELSE blocker_count[s]]
    /\ ready_steps' = SelectSeq(steps, LAMBDA a : InitialBlockers(steps, a) = 0)
    /\ prev_ok' = (pc = "returned" /\ result = "True")
    /\ changed' = edits
    /\ before' = files
    /\ edits' = {}
    /\ result' = "none"
    /\ target' = ""
    /\ extra_targets' = {}
    /\ started' = {}
    /\ finished' = {}
    /\ invoked' = << >>
    /\ failed' = {}
    /\ sigint' = {}
    /\ at_failure' = {}
    /\ UNCHANGED << plan, steps, files, hashes, now, error, cores, pid_to_step, builder >>

\* Mutant: on_step_finished records the hashes and leaves the counters and
\* the queue alone.
OnStepFinishedRecordOnly(a, fs, rest) ==
    /\ hashes' = record_input_hashes(hashes, fs, a)
    /\ blocker_count' = blocker_count
    /\ ready_steps' = rest
    /\ finished' = finished \cup {a}

\* on_step_finished(a), with the file system as it is when a is reaped.
OnStepFinished(a, fs, rest) ==
    /\ hashes' = record_input_hashes(hashes, fs, a)
    /\ blocker_count' = Decremented(steps, blocker_count, a)
    /\ ready_steps' = rest \o NewlyReady(steps, blocker_count, a)
    /\ finished' = finished \cup {a}

\* Mutant: interrupt is called but the return statement is missing.
InterruptOnly ==
    /\ sigint' = sigint \cup Signalled
    /\ builder' = Interrupted
    /\ result' = result
    /\ pc' = pc

\* self.interrupt(); return False
InterruptAndReturn ==
    /\ sigint' = sigint \cup Signalled
    /\ builder' = Interrupted
    /\ result' = "False"
    /\ pc' = "returned"

\* Step.cleanup of the step with id s: not given, a callback that returns,
\* or a callback that raises.
cleanup(s) ==
    CASE s % 3 = 1 -> "returns"
      [] s % 3 = 2 -> "raises"
      [] OTHER -> "none"

\* Lines 351-371: the dispatch branch of one loop iteration.
Dispatch(outcome) ==
    /\ UNCHANGED rest_vars
    /\ pc = "executing"
    /\ LoopCondition
    /\ ~MustWait
    /\ LET next == ready_steps[Len(ready_steps)]
           rest == SubSeq(ready_steps, 1, Len(ready_steps) - 1)
       IN /\ started' = started \cup {next}
          /\ IF ~build_if_needed(hashes, files, next)
             THEN \* clean: build_if_needed returns None
                  /\ outcome = "ok"
                  /\ OnStepFinished(next, files, rest)
                  /\ UNCHANGED << files, now, invoked, pid_to_step, builder, failed,
                                  sigint, at_failure, result, pc >>
             ELSE /\ invoked' = Append(invoked, next)
                  /\ \/ \* the action completed in process
                        /\ outcome = "ok" /\ StepOf(next).sync
                        /\ \E t \in WriteTimes(next), b \in 1..MaxBytes :
                             /\ files' = WriteOutputs(files, next, t, b)
                             /\ now' = now
                             /\ OnStepFinished(next, WriteOutputs(files, next, t, b), rest)
                        /\ UNCHANGED << pid_to_step, builder, failed, sigint,
                                        at_failure, result, pc >>
                     \/ \* the action returned the handle of a started process
                        /\ outcome = "ok" /\ ~StepOf(next).sync
                        /\ builder' = [builder EXCEPT ![next] = "running"]
                        /\ pid_to_step' = pid_to_step \cup {next}
                        /\ ready_steps' = rest
                        /\ UNCHANGED << files, now, hashes, blocker_count, finished,
                                        failed, sigint, at_failure, result, pc >>
                     \/ \* PermissionError, CalledProcessError, FileNotFoundError
                        /\ outcome = "caught"
                        /\ failed' = failed \cup {next}
                        /\ at_failure' = Running
                        /\ InterruptAndReturn
                        /\ ready_steps' = rest
                        /\ UNCHANGED << files, now, hashes, blocker_count, finished,
                                        pid_to_step >>
                     \/ \* any other exception leaves execute through the loop
                        /\ outcome = "uncaught"
                        /\ failed' = failed \cup {next}
                        /\ at_failure' = Running
                        /\ pc' = "raised"
                        /\ ready_steps' = rest
                        /\ UNCHANGED << files, now, hashes, blocker_count, finished,
                                        pid_to_step, builder, sigint, result >>
    /\ UNCHANGED << plan, steps, target, extra_targets, error, cores, runs, watcher,
                    edits, changed, prev_ok, before >>

\* Lines 305-350: the wait branch, when the child that wait_for_pid
\* returns is the process of step s.
WaitStep(s) ==
    /\ UNCHANGED << other_vars, strays, warned >>
    /\ pc = "executing"
    /\ LoopCondition
    /\ MustWait
    /\ s \in pid_to_step
    /\ builder[s] \in {"exit0", "exit1"}
    /\ cleaned' = IF builder[s] = "exit1" /\ cleanup(s) # "none"
                  THEN cleaned \cup {s} ELSE cleaned
    /\ IF builder[s] = "exit1"
       THEN \* lines 323-347: report, clean up (an exception of the callback
            \* is caught and printed), interrupt, return False
            /\ failed' = failed \cup {s}
            /\ at_failure' = Running
            /\ InterruptAndReturn
            /\ UNCHANGED << hashes, blocker_count, ready_steps, finished, pid_to_step >>
       ELSE \* lines 348-350
            /\ builder' = [builder EXCEPT ![s] = "none"]
            /\ pid_to_step' = pid_to_step \ {s}
            /\ OnStepFinished(s, files, ready_steps)
            /\ UNCHANGED << failed, at_failure, sigint, result, pc >>
    /\ UNCHANGED << plan, steps, files, now, target, extra_targets, error, cores, runs,
                    watcher, edits, changed, prev_ok, before, started, invoked >>

\* Mutant: execute returns False without calling interrupt.
WaitWatcherNoInterrupt ==
    /\ UNCHANGED rest_vars
    /\ pc = "executing"
    /\ LoopCondition
    /\ MustWait
    /\ watcher = "exited"
    /\ at_failure' = Running
    /\ result' = "False"
    /\ pc' = "returned"
    /\ UNCHANGED << plan, steps, files, hashes, now, target, extra_targets, error,
                    cores, blocker_count, ready_steps, pid_to_step, runs, watcher,
                    edits, changed, prev_ok, before, started, finished, invoked, failed,
                    sigint, builder >>

\* Lines 314-317: the child that wait_for_pid returns is the watcher.
WaitWatcher ==
    /\ UNCHANGED rest_vars
    /\ pc = "executing"
    /\ LoopCondition
    /\ MustWait
    /\ watcher = "exited"
    /\ at_failure' = Running
    /\ InterruptAndReturn
    /\ UNCHANGED << plan, steps, files, hashes, now, target, extra_targets, error,
                    cores, blocker_count, ready_steps, pid_to_step, runs, watcher,
                    edits, changed, prev_ok, before, started, finished, invoked, failed >>

\* Mutant: the exit of a child that is not in pid_to_step is taken for the
\* failure of a step.
UnregisteredExitFails ==
    /\ UNCHANGED other_vars
    /\ pc = "executing"
    /\ LoopCondition
    /\ MustWait
    /\ strays > 0
    /\ strays' = strays - 1
    /\ warned' = warned + 1
    /\ cleaned' = cleaned
    /\ at_failure' = Running
    /\ InterruptAndReturn
    /\ UNCHANGED << plan, steps, files, hashes, now, target, extra_targets, error,
                    cores, blocker_count, ready_steps, pid_to_step, runs, watcher,
                    edits, changed, prev_ok, before, started, finished, invoked, failed >>

\* Lines 311-321: the child that wait_for_pid returns is neither the
\* watcher nor in pid_to_step: print the warning and continue the loop.
UnregisteredExit ==
    /\ UNCHANGED other_vars
    /\ pc = "executing"
    /\ LoopCondition
    /\ MustWait
    /\ strays > 0
    /\ strays' = strays - 1
    /\ warned' = warned + 1
    /\ cleaned' = cleaned
    /\ UNCHANGED run_vars

\* Lines 372-375: the loop is over.  Whatever happens next happens after
\* every write of this build.
ReturnTrue ==
    /\ UNCHANGED rest_vars
    /\ pc = "executing"
    /\ ~LoopCondition
    /\ result' = "True"
    /\ pc' = "returned"
    /\ now' = SetMax({now} \cup { files[p].mtime : p \in DOMAIN files })
    /\ UNCHANGED << plan, steps, files, hashes, target, extra_targets, error,
                    cores, blocker_count, ready_steps, pid_to_step, builder, runs,
                    watcher, edits, changed, prev_ok, before, started, finished, invoked,
                    failed, sigint, at_failure >>

\* The process of step s exits: with status zero after writing the step's
\* outputs, or with a non-zero status.
ProcExit(s, ok) ==
    /\ UNCHANGED rest_vars
    /\ pc = "executing"
    /\ builder[s] = "running"
    /\ IF ok
       THEN /\ \E t \in WriteTimes(s), b \in 1..MaxBytes :
                 /\ files' = WriteOutputs(files, s, t, b)
                 /\ now' = now
            /\ builder' = [builder EXCEPT ![s] = "exit0"]
       ELSE /\ builder' = [builder EXCEPT ![s] = "exit1"]
            /\ UNCHANGED << files, now >>
    /\ UNCHANGED << plan, steps, hashes, pc, target, extra_targets, error, cores,
                    blocker_count, ready_steps, pid_to_step, result, runs, watcher,
                    edits, changed, prev_ok, before, started, finished, invoked, failed,
                    sigint, at_failure >>

\* The watcher sees a change under src/ and exits: during the build, or
\* while the main loop waits for it after the build.
WatcherExit ==
    /\ UNCHANGED rest_vars
    /\ pc \in {"executing", "returned"}
    /\ watcher = "running"
    /\ watcher' = "exited"
    /\ UNCHANGED << plan, steps, files, hashes, now, pc, target, extra_targets, error,
                    cores, blocker_count, ready_steps, pid_to_step, builder, result,
                    runs, edits, changed, prev_ok, before, started, finished, invoked, failed,
                    sigint, at_failure >>

\* The paths the steps of the (pruned) recipe name.
RecipePaths == UNION { StepOf(s).outputs \cup StepOf(s).inputs : s \in Range(steps) }

\* Between two builds somebody changes one path: touches it (new mtime,
\* same bytes), edits it (new bytes; the mtime is the time of the write, or
\* is kept, as a copy that preserves timestamps does), or deletes it (with
\* what lies under it; removing an entry stamps its parent directory).
Change(op, p) ==
    /\ UNCHANGED rest_vars
    /\ pc = "returned"
    /\ result = "True"
    /\ runs < MaxRuns
    /\ Cardinality(edits) + Cardinality(changed) < MaxEdits
    /\ p \in RecipePaths
    /\ files[p].exists
    /\ [op |-> op, path |-> p] \notin edits
    /\ \/ /\ op = "touch"
          /\ \E t \in TouchTimes :
               /\ files' = [files EXCEPT ![p].mtime = t]
               /\ now' = t
       \/ /\ op = "edit" /\ p \notin DirPaths
          /\ \E t \in TouchTimes, b \in 1..MaxBytes :
               /\ b # files[p].bytes
               /\ files' = [files EXCEPT ![p].mtime = t, ![p].bytes = b]
               /\ now' = t
       \/ /\ op = "edit_keep_mtime" /\ p \notin DirPaths
          /\ \E b \in 1..MaxBytes :
               /\ b # files[p].bytes
               /\ files' = [files EXCEPT ![p].bytes = b]
          /\ now' = now
       \/ /\ op = "delete"
          /\ \E t \in TouchTimes :
               /\ files' = [q \in DOMAIN files |->
                              IF IsRelativeTo(q, p) THEN Missing
                              ELSE IF q \in ParentDir(p)
                              THEN [files[q] EXCEPT !.mtime = t]
                              ELSE files[q]]
               /\ now' = t
    /\ edits' = edits \cup {[op |-> op, path |-> p]}
    /\ UNCHANGED << plan, steps, hashes, pc, target, extra_targets, error, cores,
                    blocker_count, ready_steps, pid_to_step, builder, result, runs,
                    watcher, changed, prev_ok, before, started, finished, invoked,
                    failed, sigint, at_failure >>

\* Mutant: the main loop keeps the recipe of the cancelled build.
ReloadKeepingRecipe ==
    /\ UNCHANGED << recipe_vars, planning_vars, closure_vars, scan_vars,
                  interrupt_vars, plan_vars, strays, warned >>
    /\ cleaned' = {}
    /\ pc = "returned"
    /\ watcher = "exited"
    /\ runs < MaxRuns
    /\ pc' = "planned"
    /\ restarted' = (result = "False" /\ failed = {})
    /\ started' = {}
    /\ finished' = {}
    /\ invoked' = << >>
    /\ failed' = {}
    /\ sigint' = {}
    /\ at_failure' = {}
    /\ UNCHANGED << plan, steps, builder, pid_to_step, ready_steps, blocker_count,
                    files, hashes, now, target, extra_targets, error, cores,
                    result, runs, watcher, edits, changed, prev_ok, before, status >>

\* __main__.py, lines 49-59: in live mode the loop waits for the watcher
\* to exit, then plans again: build.recipe() makes a new Recipe with new
\* steps, of which nothing has run, and the loop begins again with
\* set_target.
Reload ==
    /\ UNCHANGED << recipe_vars, planning_vars, closure_vars, scan_vars,
                  interrupt_vars, plan_vars, strays, warned >>
    /\ cleaned' = {}
    /\ pc = "returned"
    /\ watcher = "exited"
    /\ runs < MaxRuns
    /\ pc' = "planned"
    /\ restarted' = (result = "False" /\ failed = {})
    /\ steps' = Ascending(AllIds)
    /\ builder' = [s \in AllIds |-> "none"]
    /\ pid_to_step' = {}
    /\ ready_steps' = << >>
    /\ blocker_count' = [s \in AllIds |-> 0]
    /\ started' = {}
    /\ finished' = {}
    /\ invoked' = << >>
    /\ failed' = {}
    /\ sigint' = {}
    /\ at_failure' = {}
    /\ UNCHANGED << plan, files, hashes, now, target, extra_targets, error, cores,
                    result, runs, watcher, edits, changed, prev_ok, before, status >>

\* An exception that execute does not catch leaves __main__.py at line
\* 44: the interpreter prints the traceback and exits with status 1.
\* Nothing signals the watcher or the processes of the steps.
Traceback ==
    /\ UNCHANGED << recipe_vars, planning_vars, closure_vars, scan_vars,
                  interrupt_vars, plan_vars, child_vars >>
    /\ pc = "raised"
    /\ pc' = "exited"
    /\ status' = "exit1"
    /\ UNCHANGED << plan, steps, files, hashes, now, target, extra_targets, error,
                    cores, blocker_count, ready_steps, pid_to_step, builder, result,
                    runs, watcher, edits, changed, prev_ok, before, started, finished,
                    invoked, failed, sigint, at_failure, restarted >>

\* __main__.py, lines 56-61: without a watcher the loop is left after one
\* build; the program exits with status 1 when execute returned False.
Exit ==
    /\ UNCHANGED << recipe_vars, planning_vars, closure_vars, scan_vars,
                  interrupt_vars, plan_vars, child_vars >>
    /\ pc = "returned"
    /\ watcher = "none"
    /\ pc' = "exited"
    /\ restarted' = restarted
    /\ status' = IF result = "True" THEN "exit0" ELSE "exit1"
    /\ UNCHANGED << plan, steps, files, hashes, now, target, extra_targets, error,
                    cores, blocker_count, ready_steps, pid_to_step, builder, result,
                    runs, watcher, edits, changed, prev_ok, before, started, finished,
                    invoked, failed, sigint, at_failure >>

\* __main__.py, lines 52-55: the wait for the watcher is ended from the
\* keyboard; the watcher is killed and the loop is left.
KeyboardInterrupt ==
    /\ UNCHANGED << recipe_vars, planning_vars, closure_vars, scan_vars,
                  interrupt_vars, plan_vars, child_vars >>
    /\ pc = "returned"
    /\ watcher = "running"
    /\ watcher' = "killed"
    /\ pc' = "exited"
    /\ restarted' = restarted
    /\ status' = IF result = "True" THEN "exit0" ELSE "exit1"
    /\ UNCHANGED << plan, steps, files, hashes, now, target, extra_targets, error,
                    cores, blocker_count, ready_steps, pid_to_step, builder, result,
                    runs, edits, changed, prev_ok, before, started, finished,
                    invoked, failed, sigint, at_failure >>

\* Recipe.add_step(build_func, outputs, inputs, desc, shortcut):
\* self.steps.append(Step(..., id=len(self.steps), ...)).  An exception
\* raised by Step.__init__ leaves add_step before the append.
AddStep(build_func, outputs, inputs, desc, shortcut) ==
    /\ Len(added) < MaxSteps
    /\ LET new == StepInit(build_func, outputs, inputs, Len(added), desc, shortcut)
       IN /\ add_raised' = new.raised
          /\ added' = IF new.raised = "none" THEN Append(added, new.step) ELSE added
    /\ add_args' = [build_func |-> build_func, desc |-> desc,
                    shortcut |-> shortcut, outputs |-> outputs]
    /\ UNCHANGED << run_vars, main_vars, planning_vars, closure_vars, scan_vars,
                  interrupt_vars, plan_vars, child_vars >>

\* ---------------------------------------- src.load_extensions, recipe()

\* The name the for loop of load_extensions is loading: the outermost call.
Root == call_stack[1].name

\* An exception leaves every load_extension call in progress (no extension
\* file catches it) and is caught in the for loop of load_extensions,
\* lines 187-190, which prints the name it was loading.
Unwind ==
    /\ call_stack' = << >>
    /\ failed_to_load' = failed_to_load \cup {Root}

\* load_extension(name), lines 198-206: the module is returned if the name
\* is a key of loaded_extensions, else the file is executed.
Enter(name, stack) ==
    IF name \in loaded_extensions
    THEN /\ call_stack' = stack
         /\ exec_count' = exec_count
    ELSE /\ call_stack' = Append(stack, [name |-> name, next |-> 1])
         /\ exec_count' = [exec_count EXCEPT ![name] = @ + 1]

\* build.recipe(), line 298, src.load_extensions(), lines 180-185: the
\* list is made once per process.
LoadExtensions ==
    /\ ppc \in {"start", "done"}
    /\ passes < MaxPasses
    /\ passes' = passes + 1
    /\ log' = << >>
    /\ hook_idx' = 1
    /\ IF extensions_list.is_none
       THEN /\ extensions_list' = [is_none |-> FALSE, list |-> << >>]
            /\ glob_left' = Ext
            /\ ppc' = "loading"
       ELSE /\ ppc' = "hook_recipe"
            /\ UNCHANGED << extensions_list, glob_left >>
    /\ UNCHANGED << ext_requests, ext_hooks, ext_raises, loaded_extensions,
                    call_stack, failed_to_load, exec_count, hook_raised >>
    /\ UNCHANGED << run_vars, main_vars, recipe_vars, closure_vars, scan_vars,
                  interrupt_vars, plan_vars, child_vars >>

\* load_extensions, lines 186-190: one iteration of the loop over the
\* files, in the order glob yields them.
LoadExtension(name) ==
    /\ ppc = "loading"
    /\ call_stack = << >>
    /\ name \in glob_left
    /\ glob_left' = glob_left \ {name}
    /\ Enter(name, << >>)
    /\ UNCHANGED << ext_requests, ext_hooks, ext_raises, extensions_list,
                    loaded_extensions, failed_to_load, ppc, hook_idx, log,
                    hook_raised, passes >>
    /\ UNCHANGED << run_vars, main_vars, recipe_vars, closure_vars, scan_vars,
                  interrupt_vars, plan_vars, child_vars >>

\* The code of the file being executed calls src.load_extension for the
\* next name it builds upon.  A call beyond the recursion limit raises
\* RecursionError.
RequestExtension ==
    /\ ppc = "loading"
    /\ call_stack # << >>
    /\ LET top == call_stack[Len(call_stack)]
           reqs == ext_requests[top.name]
       IN /\ top.next <= Len(reqs)
          /\ IF reqs[top.next] \in loaded_extensions
             THEN /\ call_stack' = [call_stack EXCEPT ![Len(call_stack)].next = @ + 1]
                  /\ UNCHANGED << exec_count, failed_to_load >>
             ELSE IF Len(call_stack) >= MaxDepth
             THEN /\ Unwind
                  /\ UNCHANGED exec_count
             ELSE /\ Enter(reqs[top.next], call_stack)
                  /\ UNCHANGED failed_to_load
    /\ UNCHANGED << ext_requests, ext_hooks, ext_raises, extensions_list,
                    loaded_extensions, glob_left, ppc, hook_idx, log, hook_raised,
                    passes >>
    /\ UNCHANGED << run_vars, main_vars, recipe_vars, closure_vars, scan_vars,
                  interrupt_vars, plan_vars, child_vars >>

\* Mutant: the module is put at the front of extensions_list.
ExecModuleDoneInFront ==
    /\ ppc = "loading"
    /\ call_stack # << >>
    /\ LET top == call_stack[Len(call_stack)]
           below == SubSeq(call_stack, 1, Len(call_stack) - 1)
       IN /\ top.next > Len(ext_requests[top.name])
          /\ IF top.name \in ext_raises
             THEN /\ Unwind
                  /\ UNCHANGED << loaded_extensions, extensions_list >>
             ELSE /\ loaded_extensions' = loaded_extensions \cup {top.name}
                  /\ extensions_list' =
                       [extensions_list EXCEPT !.list = << top.name >> \o @]
                  /\ call_stack' =
                       IF below = << >> THEN below
                       ELSE [below EXCEPT ![Len(below)].next = @ + 1]
                  /\ UNCHANGED failed_to_load
    /\ UNCHANGED << ext_requests, ext_hooks, ext_raises, glob_left, exec_count,
                    ppc, hook_idx, log, hook_raised, passes >>
    /\ UNCHANGED << run_vars, main_vars, recipe_vars, closure_vars, scan_vars,
                  interrupt_vars, plan_vars, child_vars >>

\* exec_module comes to the end of the file, or the file raises; lines
\* 206-209: the module is registered after its code has run.
ExecModuleDone ==
    /\ ppc = "loading"
    /\ call_stack # << >>
    /\ LET top == call_stack[Len(call_stack)]
           below == SubSeq(call_stack, 1, Len(call_stack) - 1)
       IN /\ top.next > Len(ext_requests[top.name])
          /\ IF top.name \in ext_raises
             THEN /\ Unwind
                  /\ UNCHANGED << loaded_extensions, extensions_list >>
             ELSE /\ loaded_extensions' = loaded_extensions \cup {top.name}
                  /\ extensions_list' =
                       [extensions_list EXCEPT !.list = Append(@, top.name)]
                  /\ call_stack' =
                       IF below = << >> THEN below
                       ELSE [below EXCEPT ![Len(below)].next = @ + 1]
                  /\ UNCHANGED failed_to_load
    /\ UNCHANGED << ext_requests, ext_hooks, ext_raises, glob_left, exec_count,
                    ppc, hook_idx, log, hook_raised, passes >>
    /\ UNCHANGED << run_vars, main_vars, recipe_vars, closure_vars, scan_vars,
                  interrupt_vars, plan_vars, child_vars >>

\* load_extensions, lines 191-192: the loop is over, the list is returned.
LoadExtensionsReturn ==
    /\ ppc = "loading"
    /\ call_stack = << >>
    /\ glob_left = {}
    /\ ppc' = "hook_recipe"
    /\ hook_idx' = 1
    /\ UNCHANGED << ext_requests, ext_hooks, ext_raises, extensions_list,
                    loaded_extensions, glob_left, call_stack, failed_to_load,
                    exec_count, log, hook_raised, passes >>
    /\ UNCHANGED << run_vars, main_vars, recipe_vars, closure_vars, scan_vars,
                  interrupt_vars, plan_vars, child_vars >>

\* The stages of build.recipe() that are a loop over the extensions.
HookPhase == ppc \in AllHooks

\* build.recipe(), lines 300-302, 309-311, 318-320, 382-384: one
\* iteration of a hook loop.  The call is not guarded: an exception the
\* hook raises leaves build.recipe().
HookCall(raises) ==
    /\ HookPhase
    /\ hook_idx <= Len(extensions_list.list)
    /\ LET ext == extensions_list.list[hook_idx]
       IN IF ppc \in ext_hooks[ext]
          THEN IF raises
               THEN /\ hook_raised' = << ppc, ext >>
                    /\ ppc' = "raised"
                    /\ UNCHANGED << log, hook_idx >>
               ELSE /\ log' = Append(log, << ppc, ext >>)
                    /\ hook_idx' = hook_idx + 1
                    /\ UNCHANGED << ppc, hook_raised >>
          ELSE /\ ~raises
               /\ hook_idx' = hook_idx + 1
               /\ UNCHANGED << ppc, log, hook_raised >>
    /\ UNCHANGED << ext_requests, ext_hooks, ext_raises, extensions_list,
                    loaded_extensions, glob_left, call_stack, failed_to_load,
                    exec_count, passes >>
    /\ UNCHANGED << run_vars, main_vars, recipe_vars, closure_vars, scan_vars,
                  interrupt_vars, plan_vars, child_vars >>

\* A hook loop is over: the next statement of build.recipe().
HooksDone ==
    /\ HookPhase
    /\ hook_idx > Len(extensions_list.list)
    /\ ppc' = PhaseAfter(ppc)
    /\ hook_idx' = 1
    /\ UNCHANGED << ext_requests, ext_hooks, ext_raises, extensions_list,
                    loaded_extensions, glob_left, call_stack, failed_to_load,
                    exec_count, log, hook_raised, passes >>
    /\ UNCHANGED << run_vars, main_vars, recipe_vars, closure_vars, scan_vars,
                  interrupt_vars, plan_vars, child_vars >>

\* build.recipe(): src.scan() (line 307), update_transitive_includes and
\* plan (lines 313-316), the compile, link and run steps (lines 322-380).
CoreStage ==
    /\ ppc \in {"scan", "plan", "add_steps"}
    /\ log' = Append(log, << ppc, "" >>)
    /\ ppc' = PhaseAfter(ppc)
    /\ hook_idx' = 1
    /\ UNCHANGED << ext_requests, ext_hooks, ext_raises, extensions_list,
                    loaded_extensions, glob_left, call_stack, failed_to_load,
                    exec_count, hook_raised, passes >>
    /\ UNCHANGED << run_vars, main_vars, recipe_vars, closure_vars, scan_vars,
                  interrupt_vars, plan_vars, child_vars >>

\* ------------------------------------- File.update_transitive_includes

\* Mutant: the includes of an included file are not followed.
ExtendNothing(queue, inc) == queue

\* include_queue.extend(inc.direct_includes), line 145.
Extend(queue, inc) == queue \o direct_includes[inc]

\* Mutant: the main flag of an included file is not taken over.
PropagateNothing(self_main, inc_main) == self_main

\* self.main = self.main or inc.main, line 144.
PropagateMain(self_main, inc_main) == self_main \/ inc_main

\* update_transitive_includes, lines 129-131, called for each value of
\* srcs (build.py:313-314) in the order of the dict, which is the order the
\* directory walk found the files in.
UpdateStart(f) ==
    /\ self_file = ""
    /\ f \in Files \ updated
    /\ self_file' = f
    /\ transitive_includes' = [transitive_includes EXCEPT ![f] = {}]
    /\ include_queue' = direct_includes[f]
    /\ pops' = 0
    /\ UNCHANGED << direct_includes, marker, main, updated, warnings >>
    /\ UNCHANGED << run_vars, main_vars, recipe_vars, planning_vars, scan_vars,
                  interrupt_vars, plan_vars, child_vars >>

\* update_transitive_includes, lines 131-145: one iteration of the loop.
UpdateStep ==
    /\ self_file # ""
    /\ include_queue # << >>
    /\ pops' = pops + 1
    /\ LET path == include_queue[Len(include_queue)]
           rest == SubSeq(include_queue, 1, Len(include_queue) - 1)
       IN IF path \notin Files
          THEN /\ warnings' = warnings \cup {<< self_file, path >>}
               /\ include_queue' = rest
               /\ UNCHANGED << transitive_includes, main >>
          ELSE IF path \in transitive_includes[self_file]
          THEN /\ include_queue' = rest
               /\ UNCHANGED << transitive_includes, main, warnings >>
          ELSE /\ transitive_includes' =
                    [transitive_includes EXCEPT ![self_file] = @ \cup {path}]
               /\ main' = [main EXCEPT ![self_file] = PropagateMain(@, main[path])]
               /\ include_queue' = Extend(rest, path)
               /\ UNCHANGED warnings
    /\ UNCHANGED << direct_includes, marker, self_file, updated >>
    /\ UNCHANGED << run_vars, main_vars, recipe_vars, planning_vars, scan_vars,
                  interrupt_vars, plan_vars, child_vars >>

\* update_transitive_includes: the queue is empty, the method returns.
UpdateReturn ==
    /\ self_file # ""
    /\ include_queue = << >>
    /\ updated' = updated \cup {self_file}
    /\ self_file' = ""
    /\ UNCHANGED << direct_includes, marker, main, transitive_includes,
                    include_queue, warnings, pops >>
    /\ UNCHANGED << run_vars, main_vars, recipe_vars, planning_vars, scan_vars,
                  interrupt_vars, plan_vars, child_vars >>

\* --------------------------------------------------- File.scan_contents

\* scan_contents, lines 64-87 and the matches after them: one line.
ScanLine ==
    /\ lineno <= Len(lines)
    /\ lineno' = lineno + 1
    /\ LET match == Match(lines[lineno])
           top == if_stack[Len(if_stack)]
           test0 == match.id \in CurrentDefines
           test1 == IF match.neg THEN ~test0 ELSE test0
           test == IF match.else_ THEN ~top ELSE test1
       IN IF match.matched
          THEN /\ if_stack' =
                    IF match.end THEN SubSeq(if_stack, 1, Len(if_stack) - 1)
                    ELSE IF match.el THEN [if_stack EXCEPT ![Len(if_stack)] = test]
                    ELSE Append(if_stack, test)
               /\ UNCHANGED recorded
          ELSE IF ~top
          THEN UNCHANGED << if_stack, recorded >>
          ELSE /\ recorded' =
                    IF lines[lineno] = IncludeLine THEN recorded \cup {lineno}
                    ELSE recorded
               /\ UNCHANGED if_stack
    /\ UNCHANGED lines
    /\ UNCHANGED << run_vars, main_vars, recipe_vars, planning_vars, closure_vars,
                  interrupt_vars, plan_vars, child_vars >>

\* The scheduler with every outcome of an action and of a process.
Build ==
    \/ \E live \in BOOLEAN : ExecuteStart(live)
    \/ \E outcome \in {"ok", "caught", "uncaught"} : Dispatch(outcome)
    \/ \E s \in AllIds : WaitStep(s)
    \/ WaitWatcher
    \/ ReturnTrue
    \/ \E s \in AllIds, ok \in BOOLEAN : ProcExit(s, ok)
    \/ WatcherExit

\* The program: set_target, then execute, once or again after a success.
Next ==
    \/ \E tgt \in Targets, extras \in ExtraChoices : SetTarget(tgt, extras)
    \/ Build
    \/ Reload
    \/ Exit
    \/ KeyboardInterrupt
    \/ Traceback

Spec == Init /\ [][Next]_vars

\* The scheduler over the recipes of the planner and the odd ones, with a
\* child that no step registered.
InitScheduler ==
    /\ InitExecute({1, 3} \cup OddPlanIds, 0..MaxStrays)
    /\ InitExtensions(RequestGraph(1), [e \in Ext |-> AllHooks], {})
    /\ InitSrcs([f \in Files |-> << >>], {})
    /\ InitScanContents(<< >>)
    /\ InitInterrupt(<< >>)
    /\ InitPlan({}, [f \in {} |-> {}], {}, NoHelper)

NextScheduler ==
    \/ \E tgt \in Targets : SetTarget(tgt, {})
    \/ Build
    \/ UnregisteredExit

SpecScheduler == InitScheduler /\ [][NextScheduler]_vars

\* execute without a watcher, in which the loop goes on whenever it can and
\* a process that runs exits in the end: the scheduler is one thread that
\* blocks only in os.wait(), and os.wait() returns once a child has exited.
InitTerminates ==
    /\ InitExecute({1, 3, 5} \cup OddPlanIds, 0..MaxStrays)
    /\ InitExtensions(RequestGraph(1), [e \in Ext |-> AllHooks], {})
    /\ InitSrcs([f \in Files |-> << >>], {})
    /\ InitScanContents(<< >>)
    /\ InitInterrupt(<< >>)
    /\ InitPlan({}, [f \in {} |-> {}], {}, NoHelper)

NextTerminates ==
    \/ \E tgt \in Targets : SetTarget(tgt, {})
    \/ ExecuteStart(FALSE)
    \/ \E outcome \in {"ok", "caught", "uncaught"} : Dispatch(outcome)
    \/ \E s \in AllIds : WaitStep(s)
    \/ ReturnTrue
    \/ \E s \in AllIds, ok \in BOOLEAN : ProcExit(s, ok)
    \/ UnregisteredExit

FairTerminates ==
    /\ WF_vars(\E outcome \in {"ok", "caught", "uncaught"} : Dispatch(outcome))
    /\ WF_vars(\E s \in AllIds : WaitStep(s))
    /\ WF_vars(ReturnTrue)
    /\ WF_vars(\E s \in AllIds, ok \in BOOLEAN : ProcExit(s, ok))

SpecTerminates == InitTerminates /\ [][NextTerminates]_vars /\ FairTerminates

\* set_target alone, over every target and extra target.
NextTarget ==
    \E tgt \in Targets, extras \in ExtraChoices : SetTarget(tgt, extras)

SpecTarget == Init /\ [][NextTarget]_vars

\* Incremental builds: builds in which nothing fails and no watcher runs,
\* with changes of the files between them.
NextIncremental ==
    \/ \E tgt \in Targets : SetTarget(tgt, {})
    \/ ExecuteStart(FALSE)
    \/ Dispatch("ok")
    \/ \E s \in AllIds : WaitStep(s)
    \/ ReturnTrue
    \/ \E s \in AllIds : ProcExit(s, TRUE)
    \/ \E op \in {"touch", "edit", "edit_keep_mtime", "delete"}, p \in PlanPaths :
         Change(op, p)

SpecIncremental == Init /\ [][NextIncremental]_vars

\* A recipe under construction: add_step with every kind of argument.
InitRecipe ==
    /\ Init
    /\ plan = 1
    /\ cores = 1
    /\ files = InitialFiles(FALSE)

NextRecipe ==
    \E build_func \in BuildFuncs, outputs \in OutputArgs, inputs \in {{}, {"/r/a.o"}},
       desc \in Descs, shortcut \in ShortcutArgs :
        AddStep(build_func, outputs, inputs, desc, shortcut)

SpecRecipe == InitRecipe /\ [][NextRecipe]_vars

\* The hooks a module defines: A has all four, B and C some or none.
HookProfiles ==
    { [e \in Ext |-> IF e = "A" THEN AllHooks ELSE IF e = "B" THEN b ELSE c] :
        b \in {{}, {"hook_recipe", "hook_plan"}},
        c \in {AllHooks, {"hook_srcs", "hook_final"}} }

\* The planner before its first pass, with the extension directory as
\* found: which files request which, which raise, which hooks they have.
InitPlanning ==
    /\ InitBuild
    /\ plan = 1
    /\ cores = 1
    /\ files = InitialFiles(FALSE)
    /\ \E g \in RequestGraphs, raises \in {{}, {"B"}}, hooks \in HookProfiles :
         InitExtensions(RequestGraph(g), hooks, raises)
    /\ InitSrcs([f \in Files |-> << >>], {})
    /\ InitScanContents(<< >>)
    /\ InitInterrupt(<< >>)
    /\ InitPlan({}, [f \in {} |-> {}], {}, NoHelper)

\* build.recipe(): the extensions are loaded, then the hooks and the core
\* stages run; every hook call may raise.
NextPlanning ==
    \/ LoadExtensions
    \/ \E name \in Ext : LoadExtension(name)
    \/ RequestExtension
    \/ ExecModuleDone
    \/ LoadExtensionsReturn
    \/ \E raises \in BOOLEAN : HookCall(raises)
    \/ HooksDone
    \/ CoreStage

SpecPlanning == InitPlanning /\ [][NextPlanning]_vars

\* The sources after src.scan(), with every include graph over three
\* files and a missing one, and the main marker in any of the files.
InitClosure ==
    /\ InitBuild
    /\ plan = 1
    /\ cores = 1
    /\ files = InitialFiles(FALSE)
    /\ InitExtensions(RequestGraph(1), [e \in Ext |-> AllHooks], {})
    /\ \E includes \in [Files -> IncludeLists], markers \in SUBSET Files :
         InitSrcs(includes, markers)
    /\ InitScanContents(<< >>)
    /\ InitInterrupt(<< >>)
    /\ InitPlan({}, [f \in {} |-> {}], {}, NoHelper)

\* build.recipe(), lines 313-314: the closure pass over all files.
NextClosure ==
    \/ \E f \in Files : UpdateStart(f)
    \/ UpdateStep
    \/ UpdateReturn

SpecClosure == InitClosure /\ [][NextClosure]_vars

\* scan_contents at the first line of a well-formed text.
InitScan ==
    /\ InitBuild
    /\ plan = 1
    /\ cores = 1
    /\ files = InitialFiles(FALSE)
    /\ InitExtensions(RequestGraph(1), [e \in Ext |-> AllHooks], {})
    /\ InitSrcs([f \in Files |-> << >>], {})
    /\ \E n \in 1..MaxLines : \E text \in [1..n -> LineKinds] :
         /\ WellFormed(text)
         /\ InitScanContents(text)
    /\ InitInterrupt(<< >>)
    /\ InitPlan({}, [f \in {} |-> {}], {}, NoHelper)

NextScan == ScanLine

SpecScan == InitScan /\ [][NextScan]_vars

\* ------------------------------------------------------------ interrupt

\* A task that does not exit on SIGINT.
Never == 0 - 1

\* When a signalled task can exit: at once (or before the call), at a later
\* moment up to the end of the grace period, or never.
ExitTimes == (0..Grace) \cup {Never}

\* The indices of active, make.py line 380.
ActiveTasks == 1..Len(exit_at)

\* Popen.poll() is None: the process has neither exited nor been killed.
Alive(i) ==
    /\ i \notin killed
    /\ exit_at[i] = Never \/ clock < exit_at[i]

\* deadline - time.time() with one timeout for every task.
TimeLeftPerTask(clk) == Grace

\* time_left = deadline - time.time(), with deadline = start_time + Grace,
\* make.py lines 378-379 and 390.
TimeLeft(clk) == Grace - clk

\* The first loop, make.py lines 387-388: SIGINT to one task of active.
SendSignal ==
    /\ ipc = "signal"
    /\ task_idx <= Len(exit_at)
    /\ signalled' = IF Alive(task_idx) THEN signalled \cup {task_idx} ELSE signalled
    /\ task_idx' = task_idx + 1
    /\ UNCHANGED << exit_at, ipc, killed, clock >>
    /\ UNCHANGED << run_vars, main_vars, recipe_vars, planning_vars,
                    closure_vars, scan_vars, plan_vars, child_vars >>

\* The end of a loop over active: the next loop begins with the first task.
NextLoop ==
    /\ ipc \in {"signal", "wait"}
    /\ task_idx > Len(exit_at)
    /\ ipc' = IF ipc = "signal" THEN "wait" ELSE "kill"
    /\ task_idx' = 1
    /\ UNCHANGED << exit_at, signalled, killed, clock >>
    /\ UNCHANGED << run_vars, main_vars, recipe_vars, planning_vars,
                    closure_vars, scan_vars, plan_vars, child_vars >>

\* The second loop, make.py lines 389-395: task.wait(time_left) returns when
\* the task exits, or raises TimeoutExpired after time_left; with no time
\* left the task is not waited for.
WaitTask ==
    /\ ipc = "wait"
    /\ task_idx <= Len(exit_at)
    /\ LET time_left == TimeLeft(clock)
           i == task_idx
       IN clock' = IF time_left <= 0 \/ ~Alive(i) THEN clock
                   ELSE IF exit_at[i] # Never /\ exit_at[i] <= clock + time_left
                        THEN exit_at[i]
                        ELSE clock + time_left
    /\ task_idx' = task_idx + 1
    /\ UNCHANGED << exit_at, ipc, signalled, killed >>
    /\ UNCHANGED << run_vars, main_vars, recipe_vars, planning_vars,
                    closure_vars, scan_vars, plan_vars, child_vars >>

\* The third loop, make.py lines 396-397: task.kill(), which does nothing to
\* a process that has exited.
KillTask ==
    /\ ipc = "kill"
    /\ task_idx <= Len(exit_at)
    /\ killed' = IF Alive(task_idx) THEN killed \cup {task_idx} ELSE killed
    /\ task_idx' = task_idx + 1
    /\ UNCHANGED << exit_at, ipc, signalled, clock >>
    /\ UNCHANGED << run_vars, main_vars, recipe_vars, planning_vars,
                    closure_vars, scan_vars, plan_vars, child_vars >>

\* interrupt returns.
InterruptReturn ==
    /\ ipc = "kill"
    /\ task_idx > Len(exit_at)
    /\ ipc' = "done"
    /\ UNCHANGED << exit_at, task_idx, signalled, killed, clock >>
    /\ UNCHANGED << run_vars, main_vars, recipe_vars, planning_vars,
                    closure_vars, scan_vars, plan_vars, child_vars >>

\* interrupt called on a recipe whose steps hold between one and MaxTasks
\* builders.
InitInterrupting ==
    /\ InitBuild
    /\ plan = 1
    /\ cores = 1
    /\ files = InitialFiles(FALSE)
    /\ InitExtensions(RequestGraph(1), [e \in Ext |-> AllHooks], {})
    /\ InitSrcs([f \in Files |-> << >>], {})
    /\ InitScanContents(<< >>)
    /\ InitPlan({}, [f \in {} |-> {}], {}, NoHelper)
    /\ \E n \in 1..MaxTasks : \E active \in [1..n -> ExitTimes] :
         InitInterrupt(active)

NextInterrupt ==
    \/ SendSignal
    \/ NextLoop
    \/ WaitTask
    \/ KillTask
    \/ InterruptReturn

SpecInterrupt == InitInterrupting /\ [][NextInterrupt]_vars

\* ------------------------------------------------------------ plan

\* The paths src.scan() can find, in the order of its glob (src.py: .cc, .hh,
\* .h, .c): a main source, a header with a companion .cc next to it, a
\* source of the same stem in another directory, a header with a companion
\* .c.
ScanOrder ==
    << "src/app.cc", "src/x.cc", "src/sub/x.cc", "src/x.hh", "src/y.h",
       "src/y.c" >>

PlanFiles == { ScanOrder[i] : i \in 1..Len(ScanOrder) }

\* Path.stem.
Stem(p) ==
    CASE p = "src/app.cc" -> "app"
      [] p \in {"src/x.cc", "src/sub/x.cc", "src/x.hh"} -> "x"
      [] p \in {"src/y.h", "src/y.c"} -> "y"

\* File.is_source: the suffix is .c or .cc.
is_source(p) == p \in {"src/app.cc", "src/x.cc", "src/sub/x.cc", "src/y.c"}

\* str(f.path.with_suffix('.cc')).
with_suffix_cc(p) ==
    CASE p = "src/app.cc" -> "src/app.cc"
      [] p \in {"src/x.cc", "src/x.hh"} -> "src/x.cc"
      [] p = "src/sub/x.cc" -> "src/sub/x.cc"
      [] p \in {"src/y.h", "src/y.c"} -> "src/y.cc"

\* build.types, with build.default first (two of the variants of build.py).
types == << "fast", "release" >>

default == "fast"

\* obj_path, build.py lines 201-205: OBJ_DIR / (stem + '.o'), with the name
\* of the variant in front of the stem when it is not the default.
obj_path(p, build_type) ==
    IF build_type = default
    THEN CASE Stem(p) = "app" -> "obj/app.o"
           [] Stem(p) = "x" -> "obj/x.o"
           [] Stem(p) = "y" -> "obj/y.o"
    ELSE CASE Stem(p) = "app" -> "obj/release_app.o"
           [] Stem(p) = "x" -> "obj/release_x.o"
           [] Stem(p) = "y" -> "obj/release_y.o"

\* bin_path, build.py lines 234-239.
bin_path(p, build_type) ==
    IF build_type = default
    THEN CASE Stem(p) = "app" -> "build/app"
           [] Stem(p) = "x" -> "build/x"
           [] Stem(p) = "y" -> "build/y"
    ELSE CASE Stem(p) = "app" -> "build/release_app"
           [] Stem(p) = "x" -> "build/release_x"
           [] Stem(p) = "y" -> "build/release_y"

\* A set as a list, in some fixed order.
RECURSIVE AsList(_)
AsList(S) ==
    IF S = {} THEN << >>
    ELSE LET x == CHOOSE y \in S : TRUE
         IN << x >> \o AsList(S \ {x})

\* itertools.product(fs, types).
RECURSIVE product(_)
product(fs) ==
    IF fs = << >> THEN << >>
    ELSE [i \in 1..Len(types) |-> << Head(fs), types[i] >>] \o product(Tail(fs))

\* sources, build.py line 216, in the order of srcs.values().
sources(paths) == SelectSeq(ScanOrder, LAMBDA p : p \in paths /\ is_source(p))

\* The ObjectFile of one pair, build.py lines 218-226.
ObjectFile(src_file, build_type, includes) ==
    [path |-> obj_path(src_file, build_type),
     source |-> src_file,
     build_type |-> build_type,
     deps |-> includes[src_file] \cup {src_file} \cup {"run_py/build.py"}]

\* The first loop of plan, build.py lines 217-229: objs[str(f_obj.path)] =
\* f_obj for every pair, a later pair replacing an earlier one of that path.
RECURSIVE PlanObjs(_, _, _)
PlanObjs(pairs, includes, d) ==
    IF pairs = << >> THEN d
    ELSE LET f_obj == ObjectFile(Head(pairs)[1], Head(pairs)[2], includes)
         IN PlanObjs(Tail(pairs), includes,
                     [k \in DOMAIN d \cup {f_obj.path} |->
                         IF k = f_obj.path THEN f_obj ELSE d[k]])

\* build_link_args and build_run_args of a File: one argument of its own.
build_link_args(f) == << f >>

build_run_args(f) == << f >>

\* The while loop of plan, build.py lines 243-258.
RECURSIVE Traverse(_, _, _, _, _, _)
Traverse(queue, visited, bin_file, paths, includes, d) ==
    IF queue = << >> THEN bin_file
    ELSE LET f == queue[Len(queue)]
             rest == SubSeq(queue, 1, Len(queue) - 1)
             key == obj_path(f, bin_file.build_type)
             objects ==
                 IF key \in DOMAIN d /\ \A i \in 1..Len(bin_file.objects) :
                                          bin_file.objects[i] # d[key]
                 THEN Append(bin_file.objects, d[key])
                 ELSE bin_file.objects
             f_cc == IF with_suffix_cc(f) \in paths
                     THEN << with_suffix_cc(f) >> ELSE << >>
         IN IF f \in visited
            THEN Traverse(rest, visited, bin_file, paths, includes, d)
            ELSE Traverse(rest \o AsList(includes[f]) \o f_cc,
                          visited \cup {f},
                          [bin_file EXCEPT
                             !.link_args = @ \o build_link_args(f),
                             !.run_args = @ \o build_run_args(f),
                             !.objects = objects],
                          paths, includes, d)

\* The Binary of one pair, build.py lines 233-258.
Binary(src_file, build_type, paths, includes, d) ==
    Traverse(<< src_file >>, {},
             [path |-> bin_path(src_file, build_type),
              build_type |-> build_type,
              main |-> src_file,
              objects |-> << >>,
              link_args |-> << >>,
              run_args |-> << >>],
             paths, includes, d)

\* The second loop of plan, build.py lines 231-258.
PlanBins(paths, includes, mains, d) ==
    LET main_sources == SelectSeq(sources(paths), LAMBDA f : f \in mains)
        pairs == product(main_sources)
    IN [i \in 1..Len(pairs) |->
          Binary(pairs[i][1], pairs[i][2], paths, includes, d)]

\* A Step as the claim on planning compares it.
PlanStep(kind, name, ins, outs) ==
    [shortcut |-> << kind, name >>, inputs |-> ins, outputs |-> outs]

\* The paths an ExtensionHelper named lib works with.
CheckoutDir == "third_party/lib"

Archive == "third_party/lib.tar.gz"

PatchMarker == "third_party/lib.patched"

Makefile == "build/lib/build.ninja"

HelperOutputs == {"build/prefix/lib64/liblib.a"}

PostInstallOutputs == {"build/prefix/include/lib.h"}

\* ExtensionHelper._hook_recipe, extension_helper.py lines 109-247, for a
\* helper configured with cmake: the steps it adds and the beam it leaves.
\* self.beam is assigned in the two fetch branches, after the patch step,
\* after the install step and after the post-install step, nowhere else.
hook_recipe(h, beam0) ==
    LET fetch ==
            CASE h.fetch = "git" ->
                   {PlanStep("get", "lib", {}, {CheckoutDir})}
              [] h.fetch = "url" ->
                   {PlanStep("get", "lib", {}, {Archive}),
                    PlanStep("extract", "lib", {Archive}, {CheckoutDir})}
              [] OTHER -> {}
        beam1 == IF h.fetch \in {"git", "url"} THEN {CheckoutDir} ELSE beam0
        patch == IF h.patch
                 THEN {PlanStep("patch", "lib", beam1, {PatchMarker})} ELSE {}
        beam2 == IF h.patch THEN {PatchMarker} ELSE beam1
        configure_inputs ==
            {"src/lib.py", "run_py/extension_helper.py"} \cup beam2
        configure ==
            {PlanStep("configure", "lib", configure_inputs, {Makefile}),
             PlanStep("install", "lib", {Makefile, "ninja"}, HelperOutputs)}
        post == IF h.post_install
                THEN {PlanStep("post-install", "lib", HelperOutputs,
                               PostInstallOutputs)}
                ELSE {}
    IN IF h.skip_configure
       THEN [steps |-> fetch \cup patch, beam |-> beam2]
       ELSE [steps |-> fetch \cup patch \cup configure \cup post,
             beam |-> IF h.post_install THEN PostInstallOutputs
                      ELSE HelperOutputs]

\* The hook_recipe loop of build.recipe, build.py lines 300-302.
HelperHookRecipe ==
    /\ plan_pc = "hook_recipe"
    /\ cur_steps' = hook_recipe(helper, beam).steps
    /\ beam' = hook_recipe(helper, beam).beam
    /\ plan_pc' = "plan"
    /\ UNCHANGED << psrcs, pincludes, pmain, helper, objs, bins, pass_steps >>
    /\ UNCHANGED << run_vars, main_vars, recipe_vars, planning_vars,
                    closure_vars, scan_vars, interrupt_vars, child_vars >>

\* objs, bins = plan(srcs), build.py line 317, and the hook_plan loop after it
\* (lines 319-321), which changes nothing for a helper without include_regex.
PlanObjsAndBins ==
    /\ plan_pc = "plan"
    /\ objs' = PlanObjs(product(sources(psrcs)), pincludes, << >>)
    /\ bins' = PlanBins(psrcs, pincludes, pmain, objs')
    /\ plan_pc' = "steps"
    /\ UNCHANGED << psrcs, pincludes, pmain, helper, beam, cur_steps,
                    pass_steps >>
    /\ UNCHANGED << run_vars, main_vars, recipe_vars, planning_vars,
                    closure_vars, scan_vars, interrupt_vars, child_vars >>

\* The compile step of every ObjectFile (build.py lines 324-343), the link
\* and run steps of every Binary (lines 352-380), the compile_commands.json
\* step (lines 401-403) and the deploy step (line 410).
RecipeSteps(d, bs) ==
    { PlanStep("", d[k].path, d[k].deps \cup {"compile_commands.json"},
               {d[k].path}) : k \in DOMAIN d }
    \cup { PlanStep("link", bs[i].path,
                    { bs[i].objects[j].path : j \in 1..Len(bs[i].objects) },
                    {bs[i].path}) : i \in 1..Len(bs) }
    \cup { PlanStep("", bs[i].path, {bs[i].path}, {}) : i \in 1..Len(bs) }
    \cup { PlanStep("", "compile_commands.json", {}, {"compile_commands.json"}),
           PlanStep("", "deploy", {"www/"}, {}) }

\* The rest of build.recipe, build.py lines 323-413: the pass returns its
\* recipe.
AddPlanSteps ==
    /\ plan_pc = "steps"
    /\ cur_steps' = cur_steps \cup RecipeSteps(objs, bins)
    /\ pass_steps' = Append(pass_steps, cur_steps')
    /\ plan_pc' = "done"
    /\ UNCHANGED << psrcs, pincludes, pmain, helper, beam, objs, bins >>
    /\ UNCHANGED << run_vars, main_vars, recipe_vars, planning_vars,
                    closure_vars, scan_vars, interrupt_vars, child_vars >>

\* recipe = build.recipe() once more in the same process, __main__.py line
\* 57: a new Recipe, new srcs, objs and bins; the extension modules and their
\* helpers are the ones of the first pass.
RecipeAgain ==
    /\ plan_pc = "done"
    /\ Len(pass_steps) < MaxPasses
    /\ objs' = << >>
    /\ bins' = << >>
    /\ cur_steps' = {}
    /\ plan_pc' = "hook_recipe"
    /\ UNCHANGED << psrcs, pincludes, pmain, helper, beam, pass_steps >>
    /\ UNCHANGED << run_vars, main_vars, recipe_vars, planning_vars,
                    closure_vars, scan_vars, interrupt_vars, child_vars >>

\* The headers of the scanned tree.
PlanHeaders == {"src/x.hh", "src/y.h"}

\* File.transitive_includes after update_transitive_includes, given what
\* the files include directly.
TransitiveOf(direct) ==
    [f \in DOMAIN direct |->
        direct[f] \cup UNION { direct[h] : h \in direct[f] }]

\* A helper that clones with git and configures with cmake, as the
\* extensions of the repository do.
FetchingHelper ==
    [fetch |-> "git", patch |-> FALSE, post_install |-> FALSE,
     skip_configure |-> FALSE]

\* How an extension can set its helper up: FetchFromGit, FetchFromURL or
\* neither; PatchSources; PostInstallStep; SkipConfigure.
Helpers ==
    [fetch : {"git", "url", "none"}, patch : BOOLEAN, post_install : BOOLEAN,
     skip_configure : BOOLEAN]

\* The sources of one tree: app.cc is always there; a .cc includes the header
\* of its stem, a .c likewise; app.cc and the headers include any of the
\* headers present.
InitPlanSources ==
    \E paths \in SUBSET PlanFiles :
    \E app \in SUBSET (PlanHeaders \cap paths) :
    \E hx, hy \in BOOLEAN :
    \E mains \in SUBSET ({"src/app.cc", "src/sub/x.cc"} \cap paths) :
      /\ "src/app.cc" \in paths
      /\ LET direct ==
                 [f \in paths |->
                    (CASE f = "src/app.cc" -> app
                       [] f = "src/x.cc" -> {"src/x.hh"}
                       [] f = "src/sub/x.cc" -> {}
                       [] f = "src/x.hh" -> IF hx THEN {"src/y.h"} ELSE {}
                       [] f = "src/y.h" -> IF hy THEN {"src/x.hh"} ELSE {}
                       [] f = "src/y.c" -> {"src/y.h"}) \cap paths]
         IN InitPlan(paths, TransitiveOf(direct), mains, FetchingHelper)

\* One tree with every way of setting the helper up.
InitPlanHelpers ==
    \E h \in Helpers :
      InitPlan({"src/app.cc", "src/x.cc", "src/x.hh"},
               [f \in {"src/app.cc", "src/x.cc", "src/x.hh"} |->
                  IF f = "src/x.hh" THEN {} ELSE {"src/x.hh"}],
               {"src/app.cc"}, h)

InitPlanPasses ==
    /\ InitBuild
    /\ plan = 1
    /\ cores = 1
    /\ files = InitialFiles(FALSE)
    /\ InitExtensions(RequestGraph(1), [e \in Ext |-> AllHooks], {})
    /\ InitSrcs([f \in Files |-> << >>], {})
    /\ InitScanContents(<< >>)
    /\ InitInterrupt(<< >>)
    /\ InitPlanSources \/ InitPlanHelpers

NextPlan ==
    \/ HelperHookRecipe
    \/ PlanObjsAndBins
    \/ AddPlanSteps
    \/ RecipeAgain

SpecPlan == InitPlanPasses /\ [][NextPlan]_vars

\* =================================================================
\* Properties
\* =================================================================

\* The recipe as add_step built it, before any pruning.
PlannedSteps == Ascending(AllIds)

\* "An output of a is an input of b."
Feeds(a, b) == Intersects(StepOf(a).outputs, StepOf(b).inputs)

\* The steps the target names: by shortcut, else by output path.
NamedBy(tgt) ==
    IF \E s \in AllIds : StepOf(s).shortcut = tgt
    THEN { s \in AllIds : StepOf(s).shortcut = tgt }
    ELSE { s \in AllIds : \E o \in StepOf(s).outputs : RelativeTo(o) = tgt }

\* The least set that holds S and every step feeding a step of the set.
RECURSIVE BackwardClosure(_)
BackwardClosure(S) ==
    LET more == S \cup { a \in AllIds : \E b \in S : Feeds(a, b) }
    IN IF more = S THEN S ELSE BackwardClosure(more)

\* The steps reachable from the target and the extra targets.
Reachable(tgt, extras) ==
    BackwardClosure(NamedBy(tgt) \cup { s \in AllIds : StepOf(s).shortcut \in extras })

\* An input that no step of the recipe produces and that is not on disk.
NoWayToGet(inp) ==
    (\A s \in AllIds : inp \notin StepOf(s).outputs) /\ ~files[inp].exists

SetTargetDone == pc \in {"pruned", "config_error"}

\* C7 (pruning correctness): after set_target(X, extras...) has returned,
\* the step list holds exactly the steps reachable backward, over "an
\* output of A is an input of B", from the steps X names and the steps
\* whose shortcut is an extra target, in their original relative order.
C7_PruningCorrect ==
    pc = "pruned" =>
        steps = SelectSeq(PlannedSteps, LAMBDA s : s \in Reachable(target, extra_targets))

\* set_target returned a list that is pruned, holds a dependency chain
\* and was reached through an extra target.
C7_Witness ==
    /\ pc = "pruned"
    /\ extra_targets # {}
    /\ Len(steps) < Len(PlannedSteps)
    /\ \E a, b \in Range(steps) : a # b /\ Feeds(a, b)
    /\ \E s \in Range(steps) : StepOf(s).shortcut \in extra_targets
                               /\ s \notin BackwardClosure(NamedBy(target))

\* C8 as stated: set_target raises if and only if the target matches no
\* shortcut and no output path.
C8_RaisesIffNoMatch ==
    SetTargetDone => (error.kind # "none" <=> NamedBy(target) = {})

\* C8 as amended: the not-a-valid-target error is raised exactly when the
\* target matches no shortcut and no output path relative to the project
\* root; it names the target and offers the close shortcuts when there are
\* any, else every shortcut of the recipe.
C8_InvalidTargetIffNoMatch ==
    SetTargetDone =>
        /\ error.kind = "invalid" <=> NamedBy(target) = {}
        /\ error.kind = "invalid" =>
             LET close == { StepOf(s).shortcut : s \in { x \in AllIds :
                              IsCloseMatch(target, StepOf(x).shortcut) } }
             IN /\ error.target = target
                /\ steps = PlannedSteps
                /\ IF close # {}
                   THEN error.hint = "close" /\ error.names = close
                   ELSE error.hint = "valid"
                        /\ error.names = { StepOf(s).shortcut : s \in AllIds }

\* The error was raised with close matches on offer.
C8_Witness ==
    /\ pc = "config_error"
    /\ error.kind = "invalid"
    /\ error.hint = "close"
    /\ Cardinality(error.names) = 2

\* C9: when the target matches and a reachable step has an input that no
\* step produces and that is not on disk, set_target raises the
\* unsatisfiable-dependency error, and execute never runs on that recipe.
C9_UnsatisfiableRaises ==
    /\ (SetTargetDone /\ NamedBy(target) # {}
        /\ \E s \in Reachable(target, extra_targets) :
              \E inp \in StepOf(s).inputs : NoWayToGet(inp))
       => (error.kind = "unsatisfiable" /\ pc = "config_error")
    /\ error.kind # "none" => (pc = "config_error" /\ started = {})

\* The error was raised for a step that is reachable, not named.
C9_Witness ==
    /\ pc = "config_error"
    /\ error.kind = "unsatisfiable"
    /\ error.names # {target}
    /\ NamedBy(target) # {}

\* C1 (topological safety): in every run of execute, a step that has been
\* dequeued (and so a step whose action has been started) has every other
\* step of the recipe that produces one of its inputs finished: that
\* step's process exited with status zero, its in-process action
\* returned, or it was skipped as clean.
C1_TopologicalSafety ==
    /\ Range(invoked) \subseteq started
    /\ \A s2 \in started : \A s1 \in Range(steps) :
          (s1 # s2 /\ Feeds(s1, s2)) => s1 \in finished

\* A step with two producers ran after both of them had run.
C1_Witness ==
    \E s2 \in Range(invoked) :
        Cardinality({ s1 \in Range(invoked) : s1 # s2 /\ Feeds(s1, s2) }) = 2

\* C5 (cancellation safety): when a step has failed (its process exited
\* with a non-zero status or its action raised) and execute is over, every
\* process of another step that was running at the failure has been sent
\* the termination request.
C5_SiblingsSignalled ==
    (failed # {} /\ pc \in {"returned", "raised"}) => at_failure \subseteq sigint

\* C6 (the build stops): once a step has failed, execute is over and has
\* not reported success, the failed step is not finished, no consumer of
\* it has been made ready or dequeued, and from then on nothing is
\* dequeued, started, finished or unblocked in that run (the run is over
\* when the main loop plans again).
C6_BuildStops ==
    /\ [](failed # {} =>
            /\ pc \in {"returned", "raised", "exited"}
            /\ result # "True"
            /\ (pc = "returned" => result = "False")
            /\ failed \cap finished = {}
            /\ \A f \in failed : \A c \in Range(steps) :
                  (c # f /\ Feeds(f, c)) =>
                      (c \notin started /\ c \notin Range(ready_steps)))
    /\ [][(failed # {} /\ pc' # "planned") =>
            /\ started' = started
            /\ invoked' = invoked
            /\ finished' = finished
            /\ ready_steps' = ready_steps
            /\ blocker_count' = blocker_count
            /\ pid_to_step' = pid_to_step]_vars

\* execute returned False with a ready step left that does not depend on
\* the failed step, and with a process that had been running.
C6_Witness ==
    /\ pc = "returned" /\ result = "False"
    /\ failed # {}
    /\ \E r \in Range(ready_steps) : \A f \in failed : ~Feeds(f, r)
    /\ sigint # {}

\* C10 (bounded parallelism): the number of entries of pid_to_step never
\* exceeds the logical core count.
C10_BoundedParallelism ==
    Cardinality(pid_to_step) <= cores

\* The budget is used up while a step is ready.
C10_Witness ==
    /\ pc = "executing"
    /\ Cardinality(pid_to_step) = cores
    /\ ready_steps # << >>

\* The previous call of execute returned True and the run in progress, or
\* just over, is the next call on the same recipe.
Rerun == prev_ok /\ pc \in {"executing", "returned"}

\* The run is over and reported success, and no file was changed since.
Succeeded == pc = "returned" /\ result = "True" /\ edits = {}

\* A step without declared outputs.
Phony(s) == StepOf(s).outputs = {}

\* C2 as stated (idempotence): after a successful execute, a second
\* execute with no file changed in between invokes the action of no step.
C2_RerunInvokesNothing ==
    (Rerun /\ changed = {}) => invoked = << >>

\* The steps that can be dequeued: the least set that holds every step
\* all of whose other producers are in the set.  A step that waits,
\* directly or through other steps, for a dependency cycle is not in it.
RECURSIVE Startable(_)
Startable(T) ==
    LET more == { s \in Range(steps) :
                    \A p \in Range(steps) : (p # s /\ Feeds(p, s)) => p \in T }
    IN IF more = T THEN T ELSE Startable(more)

\* C2 as amended: after a successful execute, a second execute with no
\* file changed in between invokes the action of no step that declares
\* outputs; every such step that is dequeued is found clean and marked
\* finished, the steps without outputs (phony) are invoked again, and
\* every step that does not wait for a dependency cycle is dequeued.
C2_RerunInvokesOnlyPhony ==
    (Rerun /\ changed = {}) =>
        /\ \A s \in Range(invoked) : Phony(s)
        /\ \A s \in started : ~Phony(s) => s \in finished
        /\ Succeeded =>
             /\ finished = Startable({})
             /\ \A s \in finished : Phony(s) => s \in Range(invoked)

\* A second run without changes is over: the phony step ran again and the
\* three steps before it were found clean.
C2_Witness ==
    /\ Rerun /\ changed = {} /\ Succeeded
    /\ Len(invoked) = 1
    /\ Cardinality(finished) = 4

\* The single change that preceded the run is a change of a.c's bytes.
OnlyBytesOfAC(ops) ==
    \E op \in ops : changed = {[op |-> op, path |-> "/r/a.c"]}

\* The recipe compile(a.o), compile(b.o), link(app), unpruned.
CompileCompileLink == plan = 1 /\ steps = << 1, 2, 3 >>

\* C3 as stated: for compile(a.o) <- a.c, compile(b.o) <- b.c,
\* link(app) <- a.o, b.o built once successfully, after only the bytes of
\* a.c are changed the next execute invokes exactly compile(a.o) and
\* link(app), in that order.
C3_EditInvokesCompileAndLink ==
    (CompileCompileLink /\ Rerun /\ Succeeded
     /\ OnlyBytesOfAC({"edit", "edit_keep_mtime"}))
    => invoked = << 1, 3 >>

\* C3 as amended: when the bytes of a.c are changed and its mtime is not
\* older than that of a.o, the next execute invokes compile(a.o) first,
\* never compile(b.o), and link(app) after compile(a.o) exactly when the
\* bytes of the rebuilt a.o differ from those of the a.o linked before.
C3_EditInvokesCompileThenLinkIfChanged ==
    (CompileCompileLink /\ Rerun /\ OnlyBytesOfAC({"edit", "edit_keep_mtime"})
     /\ before["/r/a.c"].mtime >= before["/r/a.o"].mtime) =>
        /\ invoked \in { << >>, << 1 >>, << 1, 3 >> }
        /\ Succeeded =>
             /\ invoked # << >>
             /\ invoked = << 1, 3 >>
                  <=> files["/r/a.o"].bytes # before["/r/a.o"].bytes

\* The edit of a.c was followed by compile(a.o) and link(app).
C3_Witness ==
    /\ CompileCompileLink /\ Rerun /\ Succeeded
    /\ OnlyBytesOfAC({"edit"})
    /\ invoked = << 1, 3 >>

\* When the run began the step's outputs all existed and it had a record.
BuiltBefore(s) ==
    /\ ~Phony(s)
    /\ \A o \in StepOf(s).outputs : before[o].exists
    /\ hashes[StepOf(s).shortcut].exists

\* C4 (cache-busting): for a step whose outputs all exist and which has a
\* record from its last success, a regular-file input whose mtime alone
\* was made newer than the outputs does not make the step's action run;
\* an input whose bytes were changed, with an mtime not older than the
\* oldest output, makes it run.
C4_CacheBusting ==
    \A s \in Range(steps) : \A p \in StepOf(s).inputs \ DirPaths :
        (Rerun /\ BuiltBefore(s)) =>
            /\ changed = {[op |-> "touch", path |-> p]} => s \notin Range(invoked)
            /\ ((\E op \in {"edit", "edit_keep_mtime"} :
                    changed = {[op |-> op, path |-> p]})
                /\ before[p].mtime >= BuildTime(before, s)
                /\ s \in finished)
               => s \in Range(invoked)

\* A touched input, newer than the step's output, and the step was
\* dequeued and skipped.
C4_Witness ==
    \E s \in Range(steps) : \E p \in StepOf(s).inputs \ DirPaths :
        /\ Rerun /\ BuiltBefore(s)
        /\ changed = {[op |-> "touch", path |-> p]}
        /\ files[p].mtime > BuildTime(files, s)
        /\ s \in finished
        /\ s \notin Range(invoked)

\* C11 as stated: execute reports success only when every step of the
\* recipe is finished (its action ran successfully or it was skipped as
\* clean); no step is blocked, ready or running at that moment.
C11_SuccessMeansAllFinished ==
    (pc = "returned" /\ result = "True") => finished = Range(steps)

\* The watcher ended the build: execute returned False and no step failed.
WatcherInterrupt ==
    pc = "returned" /\ result = "False" /\ failed = {} /\ watcher = "exited"

\* C12: when the watcher is the child the wait returns, execute sends the
\* termination request to every running process of the recipe and none
\* of them is left running; no step is reported as failed; the main loop
\* then plans again (as long as another build is within the bound) and
\* never exits with the failure status 1 on account of it: the program
\* exits with status 1 only after a step failed.
C12_WatcherRestarts ==
    /\ [](WatcherInterrupt =>
            /\ at_failure \subseteq sigint
            /\ \A s \in Range(steps) : builder[s] # "running"
            /\ status = "none"
            /\ (runs < MaxRuns => ENABLED Reload))
    /\ [](status = "exit1" => failed # {})
    /\ [][WatcherInterrupt => (pc' = "planned" /\ status' = "none")]_vars

\* The watcher ended a build in which two processes were running.
C12_Witness ==
    /\ WatcherInterrupt
    /\ Cardinality(at_failure) = 2
    /\ Cardinality(sigint) = 2
    /\ runs < MaxRuns

\* C13 as stated: in every recipe made by add_step, any two distinct
\* steps have different shortcuts and no output path is declared by two
\* steps (a call that would add a duplicate is rejected).
C13_ShortcutsAndOutputsUnique ==
    \A i, j \in DOMAIN added :
        i # j => /\ added[i].shortcut # added[j].shortcut
                 /\ added[i].outputs \cap added[j].outputs = {}

\* The shortcut the last call asked for: the argument, else the name of
\* the action.
AskedShortcut ==
    IF add_args.shortcut = "" THEN add_args.build_func ELSE add_args.shortcut

\* The last call must be refused: desc or shortcut is omitted and the
\* action has no name, or the shortcut holds a path separator.
MustRefuse ==
    \/ (add_args.desc = "" \/ add_args.shortcut = "") /\ add_args.build_func = ""
    \/ HasSlash(AskedShortcut)

\* C14: a call of add_step either appends exactly one Step, whose id is
\* the number of steps before the call and whose fields are those asked
\* for, or raises and leaves the step list as it was; it raises exactly
\* when desc or shortcut is omitted for an action without a name or the
\* shortcut holds a path separator.  The ids of the list count from 0.
C14_AddStepAppendsOrRaises ==
    /\ [](\A i \in DOMAIN added : added[i].id = i - 1)
    /\ [][LET refused == add_raised' # "none"
          IN /\ refused <=> MustRefuse'
             /\ refused => added' = added
             /\ ~refused =>
                  /\ Len(added') = Len(added) + 1
                  /\ SubSeq(added', 1, Len(added)) = added
                  /\ added'[Len(added')].id = Len(added)
                  /\ added'[Len(added')].shortcut = AskedShortcut'
                  /\ added'[Len(added')].outputs = add_args'.outputs
                  /\ added'[Len(added')].desc # ""]_recipe_vars

\* A call was refused for a slash in the shortcut after a step was added.
C14_Witness ==
    /\ add_raised = "ValueError slash"
    /\ Len(added) = 1
    /\ add_args.build_func = "f" /\ add_args.desc = ""

\* The extensions whose hooks build.recipe() calls.
Extensions == Range(extensions_list.list)

\* The hook calls that have returned, and the core stages that have run.
Ran == Range(log)

\* C15: in every planning pass the stages run in the order hook_recipe
\* of all extensions, scan, hook_srcs of all, plan, hook_plan of all,
\* hook_final of all; within a loop the extensions are called in the
\* order of the list, each hook at most once; and no stage has run
\* before every extension that has a hook of an earlier stage was called.
C15_HooksInFixedOrder ==
    /\ \A i, j \in DOMAIN log :
          i < j => /\ Rank(log[i][1]) <= Rank(log[j][1])
                   /\ log[i] # log[j]
    /\ \A i, j \in DOMAIN log :
          (i < j /\ log[i][1] = log[j][1]) =>
              \E k, l \in DOMAIN extensions_list.list :
                  /\ k < l
                  /\ extensions_list.list[k] = log[i][2]
                  /\ extensions_list.list[l] = log[j][2]
    /\ \A j \in DOMAIN log : \A h \in AllHooks : \A e \in Extensions :
          (Rank(h) < Rank(log[j][1]) /\ h \in ext_hooks[e]) => << h, e >> \in Ran
    /\ \A j \in DOMAIN log :
          /\ Rank(log[j][1]) > Rank("scan") => << "scan", "" >> \in Ran
          /\ Rank(log[j][1]) > Rank("plan") => << "plan", "" >> \in Ran
    /\ ppc = "done" =>
          \A h \in AllHooks : \A e \in Extensions :
              h \in ext_hooks[e] => << h, e >> \in Ran

\* A pass is over in which three extensions were loaded, one of them
\* without any hook, and hooks of all four kinds ran.
C15_Witness ==
    /\ ppc = "done"
    /\ Len(extensions_list.list) = 3
    /\ \E e \in Extensions : ext_hooks[e] = {}
    /\ \A h \in AllHooks : \E e \in Extensions : << h, e >> \in Ran
    /\ Len(log) > 8

\* C16 as stated: the code of an extension file is executed at most once
\* per name, also when two files request each other, and no request
\* ends in a recursion error.
C16_ExecutedOncePerName ==
    /\ \A e \in Ext : exec_count[e] <= 1
    /\ \A i, j \in DOMAIN call_stack : i # j => call_stack[i].name # call_stack[j].name

\* C17 as stated: when a hook raises during a planning pass, the pass
\* goes on: it is not left by the exception, the hooks of the other
\* extensions run, and a recipe is returned.
C17_HookErrorsDoNotStopThePass ==
    /\ ppc # "raised"
    /\ (hook_raised # NoHook /\ ppc = "done") =>
          \A h \in AllHooks : \A e \in Extensions :
              (h \in ext_hooks[e] /\ << h, e >> # hook_raised) => << h, e >> \in Ran

\* The scanned Files a local include line of f names.
Includes(f) == Range(direct_includes[f]) \cap Files

RECURSIVE Closure(_)
\* The least set that holds S and the Files the members of S include.
Closure(S) ==
    LET more == S \cup UNION {Includes(g) : g \in S}
    IN IF more = S THEN S ELSE Closure(more)

\* The scanned Files reachable from f by one or more local-include edges.
ReachableFiles(f) == Closure(Includes(f))

RECURSIVE SumLen(_)
\* The number of entries of the direct_includes lists of a set of Files.
SumLen(S) ==
    IF S = {} THEN 0
    ELSE LET g == CHOOSE x \in S : TRUE
         IN Len(direct_includes[g]) + SumLen(S \ {g})

\* C18: when update_transitive_includes has returned for a File,
\* its transitive_includes are the scanned Files reachable from it by
\* one or more local includes; the includes that are not scanned, of the
\* File or of a reachable one, have been warned about and nothing else;
\* and the loop ends: every queue entry comes from the list of the File
\* or of a File added once, so the iterations are bounded, cycles or not.
C18_TransitiveIncludesAreReachable ==
    /\ \A f \in updated :
          /\ transitive_includes[f] = ReachableFiles(f)
          /\ {w[2] : w \in {x \in warnings : x[1] = f}} =
                (Range(direct_includes[f])
                   \cup UNION {Range(direct_includes[g]) : g \in ReachableFiles(f)}) \ Files
    /\ self_file # "" =>
          /\ transitive_includes[self_file] \subseteq ReachableFiles(self_file)
          /\ pops + Len(include_queue) =
                Len(direct_includes[self_file]) + SumLen(transitive_includes[self_file])

\* The pass is over for a.cc, which includes b.hh; b.hh includes c.hh
\* and a missing file, c.hh includes b.hh and itself: b.hh and c.hh
\* are in the closure of a.cc and the warning was printed.
C18_Witness ==
    /\ "a.cc" \in updated
    /\ direct_includes["a.cc"] = << "b.hh" >>
    /\ direct_includes["b.hh"] = << "c.hh", "gone.hh" >>
    /\ direct_includes["c.hh"] = << "b.hh", "c.hh" >>
    /\ transitive_includes["a.cc"] = {"b.hh", "c.hh"}
    /\ << "a.cc", "gone.hh" >> \in warnings

\* C19: a File the closure pass has been run for has main set if and
\* only if it has the marker or a File reachable from it has; a File
\* the pass has not reached has main set if and only if it has the
\* marker.  The Files are taken in any order.
C19_MainPropagatesUpward ==
    /\ \A f \in updated :
          main[f] <=> (f \in marker \/ ReachableFiles(f) \cap marker # {})
    /\ \A f \in Files \ (updated \cup {self_file}) : main[f] <=> f \in marker

\* The pass is over for all Files: a.cc has main from c.hh, which it
\* does not include itself.
C19_Witness ==
    /\ updated = Files
    /\ marker = {"c.hh"}
    /\ direct_includes["a.cc"] = << "b.hh" >>
    /\ direct_includes["b.hh"] = << "c.hh" >>
    /\ direct_includes["c.hh"] = << >>
    /\ main["a.cc"] /\ main["b.hh"]

RECURSIVE Sections(_)
\* The conditional sections that enclose the line after the first k
\* lines, by the rules of the C preprocessor: a section is active when
\* the section around it is, its own test holds (for #else: none before
\* it held) and no earlier branch of the same #if was taken.
Sections(k) ==
    IF k = 0 THEN << [active |-> TRUE, taken |-> TRUE, outer |-> TRUE] >>
    ELSE LET prior == Sections(k - 1)
             top == prior[Len(prior)]
             line == lines[k]
             holds == CASE line \in {"#ifdef D", "#elif defined(D)"} -> "D" \in CurrentDefines
                        [] line \in {"#ifdef U", "#elif defined(U)"} -> "U" \in CurrentDefines
                        [] line = "#ifndef D" -> "D" \notin CurrentDefines
                        [] OTHER -> TRUE
         IN IF line \in {"#ifdef D", "#ifdef U", "#ifndef D"}
            THEN Append(prior, [active |-> top.active /\ holds, taken |-> holds,
                                 outer |-> top.active])
            ELSE IF line \in {"#elif defined(D)", "#elif defined(U)"}
            THEN [prior EXCEPT ![Len(prior)] =
                    [active |-> top.outer /\ ~top.taken /\ holds,
                     taken |-> top.taken \/ holds, outer |-> top.outer]]
            ELSE IF line = "#else"
            THEN [prior EXCEPT ![Len(prior)] =
                    [active |-> top.outer /\ ~top.taken, taken |-> TRUE,
                     outer |-> top.outer]]
            ELSE IF line = "#endif" THEN SubSeq(prior, 1, Len(prior) - 1)
            ELSE prior

\* Every conditional section around line i is active.
InActiveSections(i) == Sections(i - 1)[Len(Sections(i - 1))].active

\* C20 as stated: a line scan_contents has passed is recorded if and only
\* if every conditional section around it is active under the define set.
C20_RecordedIffActive ==
    \A i \in 1..(lineno - 1) :
        lines[i] = IncludeLine => (i \in recorded <=> InActiveSections(i))

\* C24: when execute finds that the watcher has exited while processes
\* of the build are running, none of them is left running when it
\* returns; the main loop then makes a new recipe with all the steps of
\* the plan, none of them dequeued, started or holding a process, with no
\* entry in pid_to_step; the only thing done with it is set_target, and
\* the execute that follows computes every blocker counter and the ready
\* list from the steps of the new recipe alone.
C24_ChangeRestartsFromZero ==
    /\ [][(pc = "executing" /\ watcher = "exited" /\ pc' = "returned" /\ failed' = {}
            /\ result' = "False") =>
              \A s \in AllIds : builder'[s] # "running"]_vars
    /\ [][WatcherInterrupt =>
              /\ pc' = "planned"
              /\ steps' = Ascending(AllIds)
              /\ \A s \in AllIds : builder'[s] = "none" /\ blocker_count'[s] = 0
              /\ pid_to_step' = {} /\ ready_steps' = << >>
              /\ started' = {} /\ finished' = {}]_vars
    /\ [][pc = "planned" => pc' \in {"pruned", "config_error"}]_vars
    /\ [][(pc = "pruned" /\ pc' # "pruned") =>
              /\ pc' = "executing"
              /\ \A s \in Range(steps) : blocker_count'[s] = InitialBlockers(steps, s)
              /\ ready_steps' = SelectSeq(steps, LAMBDA a : InitialBlockers(steps, a) = 0)
              /\ pid_to_step' = {}
              /\ \A s \in AllIds : builder'[s] = "none"]_vars

\* The watcher cancelled a build that had written files; the recipe planned
\* after it is about to be executed, with no step started and no process.
C24_Witness ==
    /\ restarted
    /\ pc = "pruned"
    /\ runs = 1
    /\ before # files
    /\ started = {}
    /\ pid_to_step = {}
    /\ \A s \in AllIds : builder[s] = "none"

\* The steps whose action raised: they failed without a process.
RaisedIn == { s \in failed : builder[s] = "none" }

\* C25 as stated: without a watcher the program exits with status 1
\* when a step failed and with status 0 when execute returned True; with
\* a watcher the failure of a step does not end the program (only the
\* keyboard does, which kills the watcher).
C25_ExitStatusAndLiveLoop ==
    /\ (pc = "exited" /\ watcher = "none") =>
          /\ failed # {} => status = "exit1"
          /\ result = "True" => status = "exit0"
    /\ (failed # {} /\ watcher \in {"running", "exited"}) => status = "none"

\* C26 as stated: when the action of a step has raised and the loop of
\* execute is over, execute has returned False and no process of the
\* recipe is left running.
C26_RaisedActionIsFailure ==
    (RaisedIn # {} /\ pc # "executing") =>
        /\ result = "False"
        /\ \A s \in Range(steps) : builder[s] # "running"

\* Step s is dequeued in this step of execute.
Dequeued(s) == s \in started' /\ s \notin started

\* The action of step s is invoked in this step of execute.
InvokedNow(s) == invoked' = Append(invoked, s)

\* C27: a step that is dequeued while it declares no outputs, or while
\* one of its declared outputs is missing, has its action invoked at that
\* moment, whatever its inputs, the mtimes and its hash record are.
C27_PhonyAndMissingOutputAlwaysRun ==
    [][\A s \in AllIds :
         (Dequeued(s) /\ (Phony(s) \/ \E o \in StepOf(s).outputs : ~files[o].exists))
            => InvokedNow(s)]_vars

\* A run after a successful build of the generated-header recipe in
\* which a.o was deleted: the compile step, whose source is older than
\* what was built and whose record is on disk, and the phony step that
\* runs the binary, whose input did not change, were both invoked.
C27_Witness ==
    /\ plan = 2
    /\ Rerun
    /\ changed = {[op |-> "delete", path |-> "/r/a.o"]}
    /\ \E i, j \in DOMAIN invoked :
          /\ StepOf(invoked[i]).shortcut = "a.o"
          /\ StepOf(invoked[j]).shortcut = "app"
    /\ hashes["a.o"].exists /\ hashes["app"].exists

\* A step that has inputs and declared outputs, all of them on disk.
HasInputsAndOutputsOnDisk(fs, s) ==
    /\ StepOf(s).inputs # {}
    /\ StepOf(s).outputs # {}
    /\ \A o \in StepOf(s).outputs : fs[o].exists

\* The inputs the claim describes: on disk, not a directory that holds an
\* output of the step that is on disk, not older than the oldest output,
\* and, when the step has a record, with a digest that is not the
\* recorded one.
DirtyAsStated(hs, fs, s) ==
    LET oldest == CHOOSE t \in { fs[o].mtime : o \in StepOf(s).outputs } :
                      \A o \in StepOf(s).outputs : t <= fs[o].mtime
        rec == hs[StepOf(s).shortcut]
    IN { inp \in StepOf(s).inputs :
           /\ fs[inp].exists
           /\ ~(inp \in DirPaths
                /\ \E o \in StepOf(s).outputs : IsRelativeTo(o, inp) /\ fs[o].exists)
           /\ fs[inp].mtime >= oldest
           /\ \/ ~rec.exists
              \/ \A l \in rec.rec : l[1] = inp => l[2] # hexdigest(fs, inp) }

\* C28: for a step with inputs and with declared outputs that are all on
\* disk, dirty_inputs returns the inputs the claim describes, and when
\* such a step is dequeued it is marked finished without its action
\* being invoked if and only if that set is empty.
C28_DirtyInputs ==
    /\ [](\A s \in AllIds :
            HasInputsAndOutputsOnDisk(files, s) =>
                dirty_inputs(hashes, files, s) = DirtyAsStated(hashes, files, s))
    /\ [][\A s \in AllIds :
            (Dequeued(s) /\ HasInputsAndOutputsOnDisk(files, s)) =>
                ((s \in finished' /\ invoked' = invoked)
                   <=> DirtyAsStated(hashes, files, s) = {})]_vars

\* After an edit of a.c the compile step of a.o was invoked and the
\* compile step of b.o, whose source is as old as its output, was marked
\* finished without running.
C28_Witness ==
    /\ CompileCompileLink /\ Rerun
    /\ OnlyBytesOfAC({"edit"})
    /\ 1 \in Range(invoked)
    /\ 2 \in finished /\ 2 \notin Range(invoked)
    /\ files["/r/b.c"].mtime = files["/r/b.o"].mtime

\* C29 as stated: the record of a step changes only when the action of
\* that step has been invoked in this run and the step is marked
\* finished at that moment.
C29_RecordWrittenOnlyAfterSuccess ==
    [][\A s \in AllIds :
         hashes'[StepOf(s).shortcut] # hashes[StepOf(s).shortcut] =>
            (s \in finished' /\ s \notin finished /\ s \in Range(invoked'))]_vars

\* C30: interrupt sends SIGINT to every running task before it waits, the waits
\* share one deadline (the clock never passes the grace period, and a task
\* that exits within it is never killed), only the tasks still running after
\* the waits are killed, and no task is running when interrupt returns.
C30_SignalWaitSharedDeadlineKill ==
    /\ ipc # "signal" => signalled = { i \in ActiveTasks : exit_at[i] # 0 }
    /\ clock <= Grace
    /\ killed # {} => ipc \in {"kill", "done"}
    /\ \A i \in killed : i \in signalled /\ exit_at[i] = Never
    /\ ipc \in {"kill", "done"} =>
         \A i \in ActiveTasks : (exit_at[i] # Never => ~Alive(i))
    /\ ipc = "done" => \A i \in ActiveTasks : ~Alive(i)

\* Two tasks ignore SIGINT and a third exits one tick before the deadline:
\* the waits ended at the deadline, the third was left alone.
C30_Witness ==
    /\ ipc = "done"
    /\ Len(exit_at) = 3
    /\ exit_at[1] = Never
    /\ exit_at[2] = Never
    /\ exit_at[3] = Grace - 1
    /\ clock = Grace
    /\ killed = {1, 2}
    /\ signalled = {1, 2, 3}

\* plan has returned in this pass.
Planned == plan_pc \in {"steps", "done"}

\* The ObjectFiles plan returns: list(objs.values()).
MadeObjects == { objs[k] : k \in DOMAIN objs }

\* The scanned sources.
SourceSet == { f \in psrcs : is_source(f) }

\* C21: plan returns exactly one ObjectFile for every pair of a source and a
\* variant, distinct pairs have distinct ObjectFiles with distinct paths, and
\* the deps of each are the transitive includes of its source, the source and
\* the marker run_py/build.py.
C21_OneObjectFilePerPair ==
    Planned =>
      /\ \A f \in SourceSet : \A i \in 1..Len(types) :
           \E o \in MadeObjects :
             /\ o.source = f
             /\ o.build_type = types[i]
             /\ o.deps = pincludes[f] \cup {f} \cup {"run_py/build.py"}
      /\ Cardinality(MadeObjects) = Cardinality(SourceSet) * Len(types)
      /\ \A o1, o2 \in MadeObjects : o1 # o2 => o1.path # o2.path

\* The directory of a path.
Parent(p) == IF p = "src/sub/x.cc" THEN "src/sub" ELSE "src"

\* The companion sources of a header: the sources of its stem next to it.
Companions(f) ==
    IF is_source(f) THEN {}
    ELSE { s \in SourceSet : Stem(s) = Stem(f) /\ Parent(s) = Parent(f) }

\* The Files reachable from the Files of R through transitive includes and
\* the companion-source rule.
RECURSIVE ReachableThrough(_)
ReachableThrough(R) ==
    LET more == R \cup UNION { pincludes[f] \cup Companions(f) : f \in R }
    IN IF more = R THEN R ELSE ReachableThrough(more)

\* The elements of a list.
Elements(s) == { s[i] : i \in 1..Len(s) }

\* No element of a list occurs twice in it.
ListedOnce(s) == Cardinality(Elements(s)) = Len(s)

\* C22: plan returns one Binary for every pair of a main source and a
\* variant; its objects are the ObjectFiles of that variant of the sources
\* reachable from the main source through transitive includes and the
\* companion-source rule, each once; its link and run arguments are those of
\* every reachable File, each File once.
C22_BinaryCollectsReachable ==
    Planned =>
      /\ Len(bins) = Cardinality(pmain \cap SourceSet) * Len(types)
      /\ \A m \in pmain \cap SourceSet : \A k \in 1..Len(types) :
           \E i \in 1..Len(bins) :
             bins[i].main = m /\ bins[i].build_type = types[k]
      /\ \A i \in 1..Len(bins) :
           LET R == ReachableThrough({bins[i].main})
           IN /\ Elements(bins[i].objects) =
                   { ObjectFile(f, bins[i].build_type, pincludes) :
                       f \in R \cap SourceSet }
              /\ ListedOnce(bins[i].objects)
              /\ Elements(bins[i].link_args) =
                   UNION { Elements(build_link_args(f)) : f \in R }
              /\ ListedOnce(bins[i].link_args)
              /\ Elements(bins[i].run_args) =
                   UNION { Elements(build_run_args(f)) : f \in R }
              /\ ListedOnce(bins[i].run_args)

\* C23: the passes of one process over unchanged sources and extensions
\* return recipes with the same set of steps, compared by shortcut, inputs
\* and outputs.
C23_PassesPlanTheSameSteps ==
    \A i, j \in 1..Len(pass_steps) : pass_steps[i] = pass_steps[j]

\* C38: when set_target raises, for an unknown target or for an input nobody
\* produces and that is not on disk, the step list of the recipe is the one
\* from before the call: the same steps in the same order.
C38_SetTargetRaisingKeepsSteps ==
    /\ [][pc' = "config_error" => steps' = steps]_vars
    /\ [](pc = "config_error" => (error.kind # "none" /\ steps = Ascending(AllIds)))

\* set_target raised for lib.h, which is missing, after the walk had
\* collected some but not all steps of the recipe.
C38_Witness ==
    /\ pc = "config_error"
    /\ error.kind = "unsatisfiable"
    /\ Len(steps) = 3
    /\ Walk(steps, files, Matched(steps, target), {}).raised
    /\ Cardinality(Walk(steps, files, Matched(steps, target), {}).steps) < 3

\* The names an extension file asks for, directly or through the files it
\* asks for.
Requested(e) ==
    LET direct(x) == Range(ext_requests[x])
        two == direct(e) \cup UNION { direct(x) : x \in direct(e) }
    IN two \cup UNION { direct(x) : x \in two }

\* The code of e can run to its end: neither e nor a file it builds upon
\* raises, and none of them asks for itself.
LoadsCleanly(e) ==
    \A x \in {e} \cup Requested(e) : x \notin ext_raises /\ x \notin Requested(x)

\* C33: extensions_list holds every module that was loaded on request
\* before the extension that asked for it, holds no module twice, and does
\* not hold an extension whose loading raised; when load_extensions has
\* returned it holds every other extension.
C33_BaseBeforeDerived ==
    LET list == extensions_list.list
    IN /\ \A i, j \in DOMAIN list : i # j => list[i] # list[j]
       /\ \A j \in DOMAIN list : \A r \in Range(ext_requests[list[j]]) :
            \E i \in DOMAIN list : i < j /\ list[i] = r
       /\ Range(list) \cap failed_to_load = {}
       /\ Range(list) = loaded_extensions
       /\ ppc \notin {"start", "loading"} =>
            /\ Range(list) = { e \in Ext : LoadsCleanly(e) }
            /\ failed_to_load = Ext \ Range(list)

\* A and C build upon B and the loop met A first: B is first in the list.
C33_Witness ==
    /\ ppc = "hook_recipe"
    /\ ext_requests["A"] = << "B" >>
    /\ ext_requests["C"] = << "B" >>
    /\ extensions_list.list = << "B", "A", "C" >>
    /\ exec_count["B"] = 1

\* ------------------------------------------------ the scheduler's queue

\* No element of the sequence occurs in it twice.
NoRepeats(q) == \A i, j \in DOMAIN q : q[i] = q[j] => i = j

\* The steps that read a path they write.
SelfFed == { s \in Range(steps) : Intersects(StepOf(s).inputs, StepOf(s).outputs) }

\* The paths that more than one step of the recipe writes.
WrittenTwice ==
    { p \in PlanPaths :
        Cardinality({ s \in Range(steps) : p \in StepOf(s).outputs }) > 1 }

\* C34: within one run of execute every step joins the ready queue at most
\* once and its action is invoked at most once: the queue never holds a
\* step twice, never holds a step that was already taken from it in this
\* run, and the invocations of the run name no step twice; also when a
\* step reads a path it writes or two steps write one path.
C34_EnqueuedAndInvokedOnce ==
    /\ NoRepeats(ready_steps)
    /\ Range(ready_steps) \cap started = {}
    /\ NoRepeats(invoked)
    /\ Range(invoked) \subseteq started

\* A build of the recipe with the self-fed steps has finished every step:
\* the self-fed steps were decremented once more after they ran.
C34_Witness ==
    /\ plan = 6
    /\ pc = "returned"
    /\ result = "True"
    /\ SelfFed = {2, 3}
    /\ finished = {1, 2, 3, 4}
    /\ Len(invoked) = 4
    /\ blocker_count[2] < 0

\* A build of the recipe with two producers of a path has finished.
C34_WitnessTwoProducers ==
    /\ plan = 7
    /\ WrittenTwice = {"/r/x"}
    /\ pc = "returned"
    /\ result = "True"
    /\ finished = {1, 2, 3}
    /\ blocker_count[3] = 0
    /\ Range(invoked) = {2, 3}

\* The other steps of the recipe that write an input of s and have not
\* finished.
ProducersLeft(s) ==
    Cardinality({ b \in Range(steps) :
                    /\ b # s
                    /\ Intersects(StepOf(b).outputs, StepOf(s).inputs)
                    /\ b \notin finished })

\* C31 as stated: while execute runs, the counter of every step is the
\* number of its unfinished other producers and is never negative, and the
\* step is queued or dispatched exactly when the counter is zero.
C31_CounterIsProducersLeft ==
    pc = "executing" =>
        \A s \in Range(steps) :
            /\ blocker_count[s] = ProducersLeft(s)
            /\ blocker_count[s] >= 0
            /\ (s \in Range(ready_steps) \cup started) <=> (blocker_count[s] = 0)

\* C31, amended: while execute runs, the counter of every step is the
\* number of its unfinished other producers, less one once the step has
\* itself finished and reads a path it writes; it is negative only then, and
\* the step is queued or dispatched exactly when the counter is not positive.
C31_CounterIsProducersLeftLessOwnFinish ==
    pc = "executing" =>
        \A s \in Range(steps) :
            /\ blocker_count[s] =
                 ProducersLeft(s) - (IF s \in SelfFed \cap finished THEN 1 ELSE 0)
            /\ blocker_count[s] < 0 <=> s \in SelfFed \cap finished
            /\ (s \in Range(ready_steps) \cup started) <=> (blocker_count[s] <= 0)

\* The self-fed steps have finished and the step behind them is queued.
C31_Witness ==
    /\ plan = 6
    /\ pc = "executing"
    /\ finished = {1, 2, 3}
    /\ blocker_count[2] = 0 - 1
    /\ blocker_count[3] = 0 - 1
    /\ blocker_count[4] = 0
    /\ ready_steps = << 4 >>

\* Step s is dequeued and build_if_needed finds nothing to do.
SkippedAsClean(s) == Dequeued(s) /\ ~build_if_needed(hashes, files, s)

\* Step s is dequeued and its action runs in process and returns.
ReturnedInProcess(s) ==
    /\ Dequeued(s)
    /\ InvokedNow(s)
    /\ StepOf(s).sync
    /\ s \notin failed'

\* C36: a step that is dequeued and skipped as clean, or whose action
\* returns in process, is finished in the same iteration: the counter of
\* every step that reads one of its outputs is one less, and every other
\* such step whose other producers have all finished is in the ready queue
\* after the iteration.  Hence a build that returns True has finished
\* every step of the recipe.
C36_CleanOrSynchronousFinishesAtOnce ==
    /\ [][\A s \in AllIds :
            (SkippedAsClean(s) \/ ReturnedInProcess(s)) =>
                /\ finished' = finished \cup {s}
                /\ \A c \in Range(steps) :
                     Feeds(s, c) =>
                        /\ blocker_count'[c] = blocker_count[c] - 1
                        /\ (c # s /\ \A b \in Range(steps) \ {c} :
                                       Feeds(b, c) => b \in finished')
                            => c \in Range(ready_steps')
                /\ \A c \in Range(steps) :
                     ~Feeds(s, c) => blocker_count'[c] = blocker_count[c]]_vars
    /\ [](pc = "returned" /\ result = "True" => finished = Range(steps))

\* The second build of recipe 1: a.o and b.o were skipped as clean, no
\* action has run, and the link step behind them is in the queue.
C36_Witness ==
    /\ plan = 1
    /\ runs = 2
    /\ pc = "executing"
    /\ invoked = << >>
    /\ finished = {1, 2}
    /\ started = {1, 2}
    /\ blocker_count[3] = 0
    /\ ready_steps = << 3 >>

\* ------------------------------------------------- the cleanup callback

\* The steps that failed in this run and were given a cleanup callback.
FailedWithCleanup == { s \in failed : cleanup(s) # "none" }

\* C32: whenever a step has failed, by a non-zero exit status or by an
\* exception of its action, and has a cleanup callback, the callback has
\* been called when execute has handled the failure; and whenever a
\* cleanup callback was called, raising or not, the interrupt was performed
\* (no process of the recipe is left running) and execute returned False.
C32_CleanupCalledOnEveryFailure ==
    /\ FailedWithCleanup \subseteq cleaned
    /\ cleaned # {} =>
          /\ pc = "returned"
          /\ result = "False"
          /\ \A s \in Range(steps) : builder[s] # "running"

\* The part of C32 the code has: the callback of a step whose process exited
\* with a non-zero status is called, and an exception of the callback does
\* not keep execute from interrupting and returning False.
CleanupCalledOnNonZeroExit ==
    /\ \A s \in FailedWithCleanup : builder[s] = "exit1" => s \in cleaned
    /\ cleaned # {} =>
          /\ pc = "returned"
          /\ result = "False"
          /\ \A s \in Range(steps) : builder[s] # "running"

\* The callback of a step raised while another process was running.
CleanupRaisedWhileSiblingRan ==
    /\ \E s \in cleaned : cleanup(s) = "raises"
    /\ at_failure # {}
    /\ sigint # {}

\* ------------------------------------------------ an unregistered child

\* wait_for_pid returned a child that is neither the watcher nor the
\* process of a registered step.
ReapedUnregistered == strays' = strays - 1

\* C37: when the wait returns the exit of a child that is neither the
\* watcher nor in pid_to_step, execute prints one warning and goes on with
\* the loop: no step changes state (handle, registration, queue, started,
\* finished, failed), no counter changes, no hash record is written, no
\* cleanup runs, no process is signalled, and execute does not return.
C37_UnregisteredChildOnlyWarns ==
    [][ReapedUnregistered =>
          /\ warned' = warned + 1
          /\ pc = "executing" /\ pc' = "executing"
          /\ result' = result
          /\ UNCHANGED << builder, pid_to_step, ready_steps, started, finished,
                          invoked, failed >>
          /\ UNCHANGED blocker_count
          /\ UNCHANGED << hashes, files >>
          /\ UNCHANGED << sigint, at_failure, cleaned, watcher, steps >>]_vars

\* A build went on after the warning and finished every step.
C37_Witness ==
    /\ warned = 1
    /\ strays = 0
    /\ pc = "returned"
    /\ result = "True"
    /\ finished = Range(steps)
    /\ Len(steps) >= 3
    /\ sigint = {}

\* ------------------------------------------------------- termination

\* The steps of the recipe that write an input of a step of S.
ProducersOf(S) == { a \in Range(steps) : \E b \in S : Feeds(a, b) }

RECURSIVE Ancestors(_)
\* The steps a step of S waits for, directly or through other steps.
Ancestors(S) ==
    LET more == S \cup ProducersOf(S)
    IN IF more = S THEN S ELSE Ancestors(more)

\* "An output of A is an input of B" has no cycle among the steps.
Acyclic == \A s \in Range(steps) : s \notin Ancestors(ProducersOf({s}))

\* execute has ended: it returned a value or an exception left it.
Ended == pc \in {"returned", "raised"}

\* C35: when the relation among the steps is acyclic, no watcher fires and
\* every launched process exits, execute eventually returns; when moreover
\* no process exits with a non-zero status and no action raises, it returns
\* True and every step of the recipe has finished.
C35_ExecuteReturns ==
    /\ (pc = "executing" /\ Acyclic) ~> (pc = "returned")
    /\ []((Ended /\ Acyclic /\ failed = {}) =>
            (pc = "returned" /\ result = "True" /\ finished = Range(steps)))

\* What the code has of C35: execute always ends, by a return or by an
\* exception, cyclic recipes included, and it ends by a return unless an
\* action raised an exception that execute does not catch.
ExecuteEnds ==
    /\ (pc = "executing") ~> Ended
    /\ [](pc = "raised" => failed # {})
    /\ []((Ended /\ Acyclic /\ failed = {}) =>
            (pc = "returned" /\ result = "True" /\ finished = Range(steps)))

\* The build of an acyclic recipe has returned True.
AcyclicBuildSucceeded ==
    /\ Acyclic
    /\ Len(steps) >= 3
    /\ pc = "returned"
    /\ result = "True"
    /\ failed = {}
    /\ finished = Range(steps)
    /\ runs = 1

\* ---------------------------------------------------------- live mode

\* The watcher of this iteration has reported a change and the main loop
\* has not yet begun the planning pass that answers it.
ChangePending ==
    /\ watcher = "exited"
    /\ pc \notin {"planned", "pruned", "config_error"}

\* C39: in live mode no change the watcher reports between its start and
\* the end of execute is lost: while the change is pending the program is
\* in execute, which the watcher's exit interrupts at its next wait, or at
\* watcher.wait(), which returns at once; and the pending change is
\* answered by nothing but a new planning pass.
C39_NoDetectedChangeLost ==
    /\ [](ChangePending => pc \in {"executing", "returned"})
    /\ [][(ChangePending /\ ~ChangePending') => pc' = "planned"]_vars
    /\ [][(ChangePending /\ pc = "executing" /\ pc' # "executing") =>
            pc' = "returned"]_vars

\* What the code has of C39: a pending change is dropped only when an
\* exception that execute does not catch has left it.
ChangeLostOnlyByException ==
    /\ [](ChangePending /\ pc \notin {"executing", "returned"} =>
            pc \in {"raised", "exited"} /\ failed # {} /\ result = "none")
    /\ [][(ChangePending /\ ~ChangePending') => pc' = "planned"]_vars

\* The watcher reported a change during the build, execute was interrupted
\* at its wait and the main loop has planned again.
ReplannedAfterChange ==
    /\ restarted
    /\ pc = "planned"
    /\ runs = 1
    /\ watcher = "exited"

====
